---- MODULE Spec2Model ----
(***************************************************************************)
(* A model of the coding-practice core of the interview platform backend   *)
(* (src/main.py): the answer comparator compare_answers, the execution     *)
(* sandbox execute_code_no_input, the answer validator                     *)
(* validate_and_fix_problem, the problem generator                         *)
(* generate_coding_problem_no_input, the generate_problem, run_code and    *)
(* submit_coding_session request handlers, and the stream redirection of   *)
(* the sandbox when two invocations run at once; and of the registration   *)
(* and interview handlers around it.  Each part has its specification:     *)
(*   SpecCompare   compare_answers over bounded argument texts             *)
(*   SpecPhrases   compare_answers over whole answers                      *)
(*   SpecSandbox   execute_code_no_input over bounded submissions          *)
(*   SpecSession   successive sandbox runs in one process                  *)
(*   SpecValidate  validate_and_fix_problem over described problems        *)
(*   SpecGenerate  generate_coding_problem_no_input over provider replies  *)
(*   Spec          the server: generate_problem, run_code and              *)
(*                 submit_coding_session from an empty database            *)
(*   SpecSubmit    submit_coding_session over given code_submissions       *)
(*   SpecThreads   two invocations of lines 869-880 interleaved            *)
(*   SpecAuth      register, verify_otp and resend_otp as time passes      *)
(*   SpecInterview start_interview, send_interview_message and             *)
(*                 end_interview of two users                              *)
(*                                                                         *)
(* Text is a sequence of one-character strings, so that trimming, case     *)
(* folding, number parsing and substring search are computed character by  *)
(* character as the Python string methods compute them.  Fixed messages    *)
(* are sequences holding one multi-character piece.                        *)
(***************************************************************************)
EXTENDS Integers, Sequences, FiniteSets, TLC

VARIABLES
    cmp_in,     \* compare_answers: the call's arguments [actual, expected]
    cmp_out,    \* compare_answers: NoCall, or what the call returned
    exec_in,    \* execute_code_no_input: [code, expected_answer, language]
    exec_out,   \* execute_code_no_input: NoCall, or the outcome of the call
    val_in,     \* validate_and_fix_problem: the problem_data passed in
    val_out,    \* validate_and_fix_problem: NoCall, or the problem_data returned
    gen_in,     \* generate_coding_problem_no_input: the provider's configuration and reply
    gen_out,    \* generate_coding_problem_no_input: NoCall, or the problem returned
    main_module,    \* the globals of the module main that a submission can reach
    sandbox_log,    \* the sandbox runs of one process, in order: arguments and outcome
    code_problems,  \* the code_problems table: row id -> [test_cases]
    code_submissions,   \* the code_submissions table, oldest row first
    issued,     \* per row of code_problems, the expected_answer generate_problem
                \* returned to its caller when it created the row
    request,    \* the request the server handled last, or NoCall
    response,   \* what its handler answered, or NoCall
    sys,        \* the process-wide sys.stdout and sys.stderr: what each is bound to
    th,         \* overlapping sandbox invocations: each one's position and locals
    capture,    \* each invocation's stdout_capture and stderr_capture
    process_streams,    \* what was written to the process's own stdout and stderr
    now,        \* the clock datetime.now() reads, in ticks: of five minutes
                \* for the registrations, of one second for the interviews
    otp_storage,    \* the dict otp_storage: email -> pending registration
    users,      \* the users table, oldest row first
    lapsed,     \* history: the emails whose pending registration has passed
                \* its expiry since register was last called for them
    interview_sessions, \* the dict interview_sessions: session id -> session
    interview_rows      \* the interview_sessions table, oldest row first

vars == <<cmp_in, cmp_out, exec_in, exec_out, val_in, val_out, gen_in, gen_out,
          main_module, sandbox_log, code_problems, code_submissions, issued,
          request, response, sys, th, capture, process_streams, now, otp_storage,
          users, lapsed, interview_sessions, interview_rows>>

cmp_vars == <<cmp_in, cmp_out>>

exec_vars == <<exec_in, exec_out>>

val_vars == <<val_in, val_out>>

gen_vars == <<gen_in, gen_out>>

session_vars == <<main_module, sandbox_log>>

\* What the comparator and the sandbox, run on their own, leave alone.
practice_vars == <<val_vars, gen_vars, session_vars>>

server_vars == <<code_problems, code_submissions, issued, request, response>>

thread_vars == <<sys, th, capture, process_streams>>

\* The registrations and the interviews, with the clock both read.
portal_vars == <<now, otp_storage, users, lapsed, interview_sessions, interview_rows>>

NoCall == [t |-> "nocall"]

(***************************************************************************)
(* Python values as far as the core looks at them.                         *)
(***************************************************************************)
PyNone == [t |-> "NoneType"]
PyStr(s) == [t |-> "str", s |-> s]
PyInt(n) == [t |-> "int", n |-> n]
PyBool(b) == [t |-> "bool", b |-> b]

(***************************************************************************)
(* str methods                                                             *)
(***************************************************************************)
\* The characters str.strip() removes (of those the model writes).
Whitespace == {" ", "\t", "\n", "\r"}

Digits == <<"0", "1", "2", "3", "4", "5", "6", "7", "8", "9">>

UpperCase == <<"A", "B", "C", "D", "E", "F", "G", "H", "I", "J", "K", "L", "M",
               "N", "O", "P", "Q", "R", "S", "T", "U", "V", "W", "X", "Y", "Z">>

LowerCase == <<"a", "b", "c", "d", "e", "f", "g", "h", "i", "j", "k", "l", "m",
               "n", "o", "p", "q", "r", "s", "t", "u", "v", "w", "x", "y", "z">>

IndexIn(c, seq) == IF \E i \in DOMAIN seq : seq[i] = c
                   THEN CHOOSE i \in DOMAIN seq : seq[i] = c
                   ELSE 0

\* str.lower()
Lower(s) == [i \in DOMAIN s |->
                IF IndexIn(s[i], UpperCase) > 0
                THEN LowerCase[IndexIn(s[i], UpperCase)]
                ELSE s[i]]

RECURSIVE LStrip(_)
LStrip(s) == IF s # <<>> /\ Head(s) \in Whitespace THEN LStrip(Tail(s)) ELSE s

RECURSIVE RStrip(_)
RStrip(s) == IF s # <<>> /\ s[Len(s)] \in Whitespace
             THEN RStrip(SubSeq(s, 1, Len(s) - 1))
             ELSE s

\* str.strip()
Strip(s) == RStrip(LStrip(s))

\* s.replace(c, "") for a one-character c
Remove(s, c) == SelectSeq(s, LAMBDA x : x # c)

\* `in` with its operands exchanged: s in sub
Contains_reversed(sub, s) ==
    \E i \in 0 .. (Len(sub) - Len(s)) : SubSeq(sub, i + 1, i + Len(s)) = s

\* sub in s
Contains(sub, s) ==
    \E i \in 0 .. (Len(s) - Len(sub)) : SubSeq(s, i + 1, i + Len(sub)) = sub

(***************************************************************************)
(* float(s) for the decimal literals the model writes: an optional sign,   *)
(* digits with at most one point, at least one digit.  The value is the    *)
(* exact fraction num / den, den a power of ten.  (Python's float also     *)
(* reads exponents, underscores, inf and nan; the model's texts hold none  *)
(* of the characters these need in a position where they would parse.)     *)
(***************************************************************************)
NotANumber == [ok |-> FALSE, num |-> 0, den |-> 1]

RECURSIVE DigitsValue(_)
DigitsValue(s) == IF s = <<>> THEN 0
                  ELSE 10 * DigitsValue(SubSeq(s, 1, Len(s) - 1))
                       + (IndexIn(s[Len(s)], Digits) - 1)

RECURSIVE Pow10(_)
Pow10(n) == IF n = 0 THEN 1 ELSE 10 * Pow10(n - 1)

ParseUnsigned(s) ==
    LET points == {i \in DOMAIN s : s[i] = "."}
        digs == SelectSeq(s, LAMBDA c : c # ".")
        fraction == IF points = {} THEN 0 ELSE Len(s) - (CHOOSE i \in points : TRUE)
    IN  IF /\ Cardinality(points) <= 1
           /\ digs # <<>>
           /\ \A i \in DOMAIN digs : IndexIn(digs[i], Digits) > 0
        THEN [ok |-> TRUE, num |-> DigitsValue(digs), den |-> Pow10(fraction)]
        ELSE NotANumber

ParseFloat(s) ==
    IF s # <<>> /\ Head(s) \in {"+", "-"}
    THEN LET u == ParseUnsigned(Tail(s))
         IN  IF Head(s) = "-" THEN [u EXCEPT !.num = 0 - u.num] ELSE u
    ELSE ParseUnsigned(s)

Abs(n) == IF n < 0 THEN 0 - n ELSE n

\* The tolerance of the numeric strategy is 1 / ToleranceDen.
ToleranceDen == 100

\* abs(a - b) < 0.01 on exact fractions
IsClose(a, b) == ToleranceDen * Abs(a.num * b.den - b.num * a.den) < a.den * b.den

true_vals == {<<"t", "r", "u", "e">>, <<"1">>, <<"y", "e", "s">>}

false_vals == {<<"f", "a", "l", "s", "e">>, <<"0">>, <<"n", "o">>}

\* str(x).strip().replace(" ", "").replace("\n", "").replace("\r", "")
Clean(s) == Remove(Remove(Remove(Strip(s), " "), "\n"), "\r")

(***************************************************************************)
(* compare_answers(actual, expected): the strategies in the order of the   *)
(* code, each returning as soon as it decides.  "by" names the strategy    *)
(* that returned, "consulted" the strategies whose test was evaluated.     *)
(***************************************************************************)
\* The numeric strategy deciding as soon as one of the two is a number.
NumericDecides_either(actual_clean, expected_clean) ==
    ParseFloat(actual_clean).ok \/ ParseFloat(expected_clean).ok

\* Lines 521-530: both float() calls succeed, so line 527 returns; when one
\* raises ValueError the except passes on to the next strategy.
NumericDecides(actual_clean, expected_clean) ==
    ParseFloat(actual_clean).ok /\ ParseFloat(expected_clean).ok

\* compare_answers with the containment test moved ahead of the numeric one.
compare_answers_contains_first(actual, expected) ==
    LET actual_clean == Clean(actual)
        expected_clean == Clean(expected)
    IN  IF Lower(actual_clean) = Lower(expected_clean)
        THEN [result |-> TRUE, by |-> "exact", consulted |-> {"exact"}]
        ELSE IF Contains(expected_clean, actual_clean)
        THEN [result |-> TRUE, by |-> "contains", consulted |-> {"exact", "contains"}]
        ELSE IF NumericDecides(actual_clean, expected_clean)
        THEN [result |-> IsClose(ParseFloat(actual_clean), ParseFloat(expected_clean)),
              by |-> "numeric", consulted |-> {"exact", "contains", "numeric"}]
        ELSE [result |-> FALSE, by |-> "none",
              consulted |-> {"exact", "contains", "numeric"}]

compare_answers_steps(actual, expected) ==
    LET actual_clean == Clean(actual)
        expected_clean == Clean(expected)
    IN  IF Lower(actual_clean) = Lower(expected_clean)
        THEN [result |-> TRUE, by |-> "exact", consulted |-> {"exact"}]
        ELSE IF NumericDecides(actual_clean, expected_clean)
        THEN [result |-> IsClose(ParseFloat(actual_clean), ParseFloat(expected_clean)),
              by |-> "numeric", consulted |-> {"exact", "numeric"}]
        ELSE IF Lower(actual_clean) \in true_vals /\ Lower(expected_clean) \in true_vals
        THEN [result |-> TRUE, by |-> "boolean",
              consulted |-> {"exact", "numeric", "boolean"}]
        ELSE IF Lower(actual_clean) \in false_vals /\ Lower(expected_clean) \in false_vals
        THEN [result |-> TRUE, by |-> "boolean",
              consulted |-> {"exact", "numeric", "boolean"}]
        ELSE IF Contains(expected_clean, actual_clean)
        THEN [result |-> TRUE, by |-> "contains",
              consulted |-> {"exact", "numeric", "boolean", "contains"}]
        ELSE [result |-> FALSE, by |-> "none",
              consulted |-> {"exact", "numeric", "boolean", "contains"}]

compare_answers(actual, expected) == compare_answers_steps(actual, expected).result

(***************************************************************************)
(* Submitted source code.  A submission is a sequence of top-level lines;  *)
(* each line kind fixes both its text, as far as the entry-point pattern   *)
(* def\s+(\w+)\s*\(\s*\) reads it, and what evaluating it does:            *)
(*   def0          def NAME(): BODY      a zero-parameter definition       *)
(*   defn          def NAME(x): ...      a definition with a parameter     *)
(*   comment_def0  # def NAME()          a comment holding the pattern     *)
(*   assign_int    NAME = int            binds NAME to the builtin int     *)
(*   print         print(TEXT)           a top-level statement             *)
(*   raise         raise EXC             a top-level statement             *)
(*   syntax_error  a line that does not compile                            *)
(*   rebind        a top-level statement that walks from a builtin type    *)
(*                 through object.__subclasses__() to sys.modules and      *)
(*                 rebinds compare_answers in the module main              *)
(* A BODY is what one call of the function does: the text it writes to     *)
(* sys.stdout and to sys.stderr, then a return value or an exception.      *)
(***************************************************************************)
NoExc == [base |-> "none"]

\* An exception: whether `except Exception` catches it, and str(e).
Exc(base, msg) == [base |-> base, msg |-> msg]

ZeroDivisionError == Exc("Exception", <<"division by zero">>)

SystemExit == Exc("BaseException", <<"3">>)

SyntaxError == Exc("Exception", <<"invalid syntax">>)

TypeError == Exc("Exception", <<"missing 1 required positional argument">>)

\* re.search(r'def\s+(\w+)\s*\(\s*\)', line text)
LineMatches(line) == line.k \in {"def0", "comment_def0"}

\* func_match: the index of the first line the pattern matches in, 0 for None
FuncMatch(code) ==
    IF \E i \in DOMAIN code : LineMatches(code[i])
    THEN CHOOSE i \in DOMAIN code :
            LineMatches(code[i]) /\ \A j \in 1 .. (i - 1) : ~LineMatches(code[j])
    ELSE 0

Unbound == [c |-> "unbound"]

\* What a top-level line binds its name to.
Binding(line) ==
    CASE line.k = "def0" -> [c |-> "function", params |-> 0, body |-> line.body]
      [] line.k = "defn" -> [c |-> "function", params |-> 1]
      [] line.k = "assign_int" -> [c |-> "builtin_int"]
      [] OTHER -> Unbound

\* exec(code, safe_globals) after compilation: the statements in order, until
\* one raises.  env: the names bound, the text written to the process's own
\* sys.stdout (exec runs outside the redirection), the exception, the count of
\* statements evaluated.
RECURSIVE RunLines(_, _, _)
RunLines(code, i, env) ==
    IF i > Len(code) THEN env
    ELSE LET line == code[i]
             ran == [env EXCEPT !.statements = @ + 1]
         IN  CASE line.k \in {"def0", "defn", "assign_int"} ->
                    RunLines(code, i + 1,
                             [ran EXCEPT !.globals =
                                 [n \in DOMAIN @ \cup {line.name} |->
                                     IF n = line.name THEN Binding(line) ELSE @[n]]])
               [] line.k = "print" ->
                    RunLines(code, i + 1, [ran EXCEPT !.stdout = @ \o line.text])
               [] line.k = "raise" -> [ran EXCEPT !.raised = line.exc]
               [] line.k = "rebind" ->
                    RunLines(code, i + 1, [ran EXCEPT !.module.compare_answers = line.to])
               [] OTHER -> RunLines(code, i + 1, env)

\* The globals of the module main as the process loaded it: the name
\* compare_answers is bound to the function of lines 503-553.
MainModule == [compare_answers |-> "compare_answers"]

\* safe_globals as lines 815-843 build it for every call: no name of an
\* earlier call in it.  module: the globals of main the call finds.
EnvIn(module) ==
    [globals |-> <<>>, stdout |-> <<>>, raised |-> NoExc, statements |-> 0,
     module |-> module]

EmptyEnv == EnvIn(MainModule)

\* exec(code, safe_globals): compilation of the whole source comes first.
ExecSourceIn(module, code) ==
    IF \E i \in DOMAIN code : code[i].k = "syntax_error"
    THEN [EnvIn(module) EXCEPT !.raised = SyntaxError]
    ELSE RunLines(code, 1, EnvIn(module))

ExecSource(code) == ExecSourceIn(MainModule, code)

\* safe_globals[func_name](): what the call writes, and how it ends.
CallEntry(callable) ==
    CASE callable.c = "function" /\ callable.params = 0 ->
            [out |-> callable.body.out, err |-> callable.body.err,
             raised |-> callable.body.raised, value |-> callable.body.value]
      [] callable.c = "function" /\ callable.params # 0 ->
            [out |-> <<>>, err |-> <<>>, raised |-> TypeError, value |-> PyNone]
      [] OTHER ->
            [out |-> <<>>, err |-> <<>>, raised |-> NoExc, value |-> PyInt(0)]

RECURSIVE NatToText(_)
NatToText(n) == IF n < 10 THEN <<Digits[n + 1]>>
                ELSE NatToText(n \div 10) \o <<Digits[(n % 10) + 1]>>

\* str(value)
Str(v) ==
    CASE v.t = "str" -> v.s
      [] v.t = "int" -> IF v.n < 0 THEN <<"-">> \o NatToText(0 - v.n) ELSE NatToText(v.n)
      [] v.t = "bool" -> IF v.b THEN <<"T", "r", "u", "e">> ELSE <<"F", "a", "l", "s", "e">>
      [] OTHER -> <<"N", "o", "n", "e">>

(***************************************************************************)
(* execute_code_no_input(code, expected_answer, language).  The operator   *)
(* gives the returned dict, or the exception that leaves the function      *)
(* (neither `except Exception` of the code catches an exception that does  *)
(* not derive from Exception), and what the call did on the way:           *)
(*   statements      top-level statements of the submission evaluated      *)
(*   call            what the one call of the entry point did, or NoCall   *)
(*   invocations     calls of the entry point                              *)
(*   compared        whether compare_answers was called                    *)
(*   process_stdout  text written to the process's own sys.stdout          *)
(***************************************************************************)
Result(success, output, error, passed, expected, actual) ==
    [success |-> success, output |-> output, error |-> error,
     passed |-> passed, expected |-> expected, actual |-> actual]

\* A failure that reports the run as passed.
Failure_passed(error, expected) == Result(FALSE, <<>>, PyStr(error), TRUE, expected, <<>>)

\* The result of the branches that run nothing or stop at the definition.
Failure(error, expected) == Result(FALSE, <<>>, PyStr(error), FALSE, expected, <<>>)

NoResult == [t |-> "noresult"]

Returns(result, statements, call, compared, process_stdout) ==
    [returned |-> TRUE, result |-> result, propagated |-> NoExc,
     statements |-> statements, call |-> call,
     invocations |-> IF call = NoCall THEN 0 ELSE 1,
     compared |-> compared, process_stdout |-> process_stdout]

Propagates(exc, statements, call, process_stdout) ==
    [returned |-> FALSE, result |-> NoResult, propagated |-> exc,
     statements |-> statements, call |-> call,
     invocations |-> IF call = NoCall THEN 0 ELSE 1,
     compared |-> FALSE, process_stdout |-> process_stdout]

\* `except Exception`
Catches(exc) == exc.base = "Exception"

\* The diagnostics test dropped: stderr text never fails the run.
DiagnosticsPresent_ignored(error_output) == FALSE

\* `if error_output:` on the stripped text of stderr_capture
DiagnosticsPresent(error_output) == error_output # <<>>

\* `str(result) if result else printed_output`: truthiness for `is not None`.
ActualOutput_truthy(result, printed_output) ==
    IF result \notin {PyNone, PyStr(<<>>), PyInt(0), PyBool(FALSE)}
    THEN Str(result)
    ELSE printed_output

\* `str(result) if result is not None else printed_output`
ActualOutput(result, printed_output) ==
    IF result # PyNone THEN Str(result) ELSE printed_output

\* The java branch missing: java falls through to the final else.
NotImplemented_no_java(language, expected_answer) ==
    CASE language = "javascript" ->
            Failure(<<"JavaScript execution not implemented yet">>, expected_answer)
      [] OTHER ->
            Failure(<<"Unsupported language: ", language>>, expected_answer)

\* The language branches that execute nothing (lines 922-950).
NotImplemented(language, expected_answer) ==
    CASE language = "javascript" ->
            Failure(<<"JavaScript execution not implemented yet">>, expected_answer)
      [] language = "java" ->
            Failure(<<"Java execution not implemented yet">>, expected_answer)
      [] OTHER ->
            Failure(<<"Unsupported language: ", language>>, expected_answer)

\* `compare_answers(actual_output, expected_answer)` at line 900: the name is
\* looked up in the globals of main when the line runs.
CallCompareAnswers(module, actual, expected) ==
    IF module.compare_answers = "compare_answers"
    THEN compare_answers(actual, expected)
    ELSE module.compare_answers = "lambda: True"

\* Lines 869-920: the call of the entry point under the redirection, and the
\* result built from what it returned, printed or raised.
InvokeEntry(callable, expected_answer, env) ==
    LET call == CallEntry(callable)
        printed_output == Strip(call.out)
        error_output == Strip(call.err)
    IN  IF call.raised # NoExc
        THEN IF Catches(call.raised)
             THEN Returns(Result(FALSE, printed_output,
                                 PyStr(<<"Runtime error: ">> \o call.raised.msg),
                                 FALSE, expected_answer, printed_output),
                          env.statements, call, FALSE, env.stdout)
             ELSE Propagates(call.raised, env.statements, call, env.stdout)
        ELSE IF DiagnosticsPresent(error_output)
        THEN Returns(Result(FALSE, printed_output, PyStr(error_output), FALSE,
                            expected_answer,
                            IF printed_output # <<>> THEN printed_output
                            ELSE Str(call.value)),
                     env.statements, call, FALSE, env.stdout)
        ELSE LET actual_output == ActualOutput(call.value, printed_output)
             IN  Returns(Result(TRUE, actual_output, PyNone,
                                CallCompareAnswers(env.module, actual_output,
                                                   expected_answer),
                                expected_answer, actual_output),
                         env.statements, call, TRUE, env.stdout)

execute_code_no_input_in(module, code, expected_answer, language) ==
    IF language # "python"
    THEN Returns(NotImplemented(language, expected_answer), 0, NoCall, FALSE, <<>>)
    ELSE IF FuncMatch(code) = 0
    THEN Returns(Failure(<<"Function must have NO parameters: def solution():">>,
                         expected_answer), 0, NoCall, FALSE, <<>>)
    ELSE LET func_name == code[FuncMatch(code)].name
             env == ExecSourceIn(module, code)
         IN  IF env.raised # NoExc
             THEN IF Catches(env.raised)
                  THEN Returns(Failure(<<"Code compilation error: ">> \o env.raised.msg,
                                       expected_answer),
                               env.statements, NoCall, FALSE, env.stdout)
                  ELSE Propagates(env.raised, env.statements, NoCall, env.stdout)
             ELSE IF func_name \notin DOMAIN env.globals
             THEN Returns(Failure(<<"Function '", func_name, "' not found in code">>,
                                  expected_answer),
                          env.statements, NoCall, FALSE, env.stdout)
             ELSE InvokeEntry(env.globals[func_name], expected_answer, env)

\* The call in a process whose module main is as loaded.
execute_code_no_input(code, expected_answer, language) ==
    execute_code_no_input_in(MainModule, code, expected_answer, language)

\* The globals of main after the call: what the statements that ran left.
ModuleAfter(module, code, language) ==
    IF language = "python" /\ FuncMatch(code) # 0
    THEN ExecSourceIn(module, code).module
    ELSE module

(***************************************************************************)
(* Bounded inputs.                                                         *)
(***************************************************************************)
\* The longest text drawn freely from AnswerChars.
MaxLen == 3

\* The most top-level lines of a submission.
MaxLines == 2

\* No "." here: two decimals exactly 0.01 apart are decided by the binary
\* rounding of float in the code, which the exact fractions do not reproduce;
\* Decimals holds literals with a point that stay clear of that boundary.
AnswerChars == {"1", "0", " ", "a"}

Decimals == {<<"4", "2">>, <<"4", "2", ".", "0">>,
             <<"0", ".", "0", "0", "5">>, <<".", "0", "2">>, <<"1", ".">>,
             <<"-", "1">>, <<"A", "1">>, <<"T", "r", "u", "e">>, <<"y", "e", "s">>}

Answers == UNION {[1 .. n -> AnswerChars] : n \in 0 .. MaxLen} \cup Decimals

Outs == {<<>>, <<"p", "\n">>}

Errs == {<<>>, <<"\n">>, <<"w", "\n">>}

Values == {PyNone, PyInt(42), PyStr(<<>>)}

Bodies == [out : Outs, err : Errs, raised : {NoExc}, value : Values]
          \cup [out : Outs, err : Errs, raised : {ZeroDivisionError, SystemExit},
                value : {PyNone}]

Lines == [k : {"def0"}, name : {"solution"}, body : Bodies]
         \cup [k : {"defn", "assign_int"}, name : {"solution"}]
         \cup [k : {"comment_def0"}, name : {"solution", "helper"}]
         \cup [k : {"print"}, text : {<<"t", "\n">>}]
         \cup [k : {"raise"}, exc : {ZeroDivisionError, SystemExit}]
         \cup [k : {"syntax_error"}]

Programs == UNION {[1 .. n -> Lines] : n \in 0 .. MaxLines}

ExpectedAnswers == {<<"4", "2">>, <<"p">>}

Languages == {"python", "javascript", "java", "ruby"}

(***************************************************************************)
(* compare_answers as a state machine: the arguments, then the call.       *)
(***************************************************************************)
CmpIdle == cmp_in = [actual |-> <<>>, expected |-> <<>>] /\ cmp_out = NoCall

ExecIdle ==
    /\ exec_in = [code |-> <<>>, expected_answer |-> <<>>, language |-> "python"]
    /\ exec_out = NoCall

ServerIdle ==
    /\ code_problems = <<>>
    /\ code_submissions = <<>>
    /\ issued = <<>>
    /\ request = NoCall
    /\ response = NoCall

ValIdle == val_in = NoCall /\ val_out = NoCall

GenIdle == gen_in = NoCall /\ gen_out = NoCall

SessionIdle == main_module = MainModule /\ sandbox_log = <<>>

PracticeIdle == ValIdle /\ GenIdle /\ SessionIdle

\* No invocation in progress: the process's streams are bound to themselves.
ThreadsIdle ==
    /\ sys = [stdout |-> 0, stderr |-> 0]
    /\ th = <<>>
    /\ capture = <<>>
    /\ process_streams = [stdout |-> <<>>, stderr |-> <<>>]

\* No registration pending, no account, no interview, the clock at its start.
PortalIdle ==
    /\ now = 0
    /\ otp_storage = <<>>
    /\ users = <<>>
    /\ lapsed = {}
    /\ interview_sessions = <<>>
    /\ interview_rows = <<>>

InitCompare ==
    /\ cmp_in \in [actual : Answers, expected : Answers]
    /\ cmp_out = NoCall
    /\ ExecIdle
    /\ PracticeIdle
    /\ ServerIdle
    /\ ThreadsIdle
    /\ PortalIdle

Compare ==
    /\ cmp_out = NoCall
    /\ cmp_out' = compare_answers_steps(cmp_in.actual, cmp_in.expected)
    /\ UNCHANGED <<portal_vars, cmp_in, practice_vars, exec_vars, server_vars, thread_vars>>

SpecCompare == InitCompare /\ [][Compare]_vars

(***************************************************************************)
(* compare_answers over whole answers: texts that differ in white space    *)
(* and letter case, the boolean words in their spellings, and sentences    *)
(* that hold an answer.                                                    *)
(***************************************************************************)
\* One answer written with different white space and letter case.
SpacedAnswers ==
    {<<"1", "0">>, <<"1", " ", "0">>, <<"1", "\t", "0">>, <<"1", "\n", "0">>,
     <<" ", "1", "\r", "0", " ">>, <<"\t", "1", "0", "\n">>, <<"a", "b">>,
     <<"A", " ", "b">>, <<"a", "\t", "B">>}

\* The words of true_vals and false_vals in lower case, capitalized, upper case.
BooleanWords ==
    {<<"t", "r", "u", "e">>, <<"T", "r", "u", "e">>, <<"T", "R", "U", "E">>,
     <<"y", "e", "s">>, <<"Y", "e", "s">>, <<"Y", "E", "S">>, <<"1">>,
     <<"f", "a", "l", "s", "e">>, <<"F", "a", "l", "s", "e">>,
     <<"F", "A", "L", "S", "E">>, <<"n", "o">>, <<"N", "o">>, <<"N", "O">>,
     <<"0">>}

\* Answers inside longer texts, and texts inside longer answers.
Sentences ==
    {<<"T", "h", "e", " ", "a", "n", "s", "w", "e", "r", " ", "i", "s", " ", "1", "2">>,
     <<"1", "2">>, <<"c", "a", "t">>, <<"d", "o", "g">>, <<"c", "a">>,
     <<"C", "A", "T">>, <<"c", "o", "n", "c", "a", "t">>, <<>>}

Phrases == SpacedAnswers \cup BooleanWords \cup Sentences

InitPhrases ==
    /\ cmp_in \in [actual : Phrases, expected : Phrases]
    /\ cmp_out = NoCall
    /\ ExecIdle
    /\ PracticeIdle
    /\ ServerIdle
    /\ ThreadsIdle
    /\ PortalIdle

SpecPhrases == InitPhrases /\ [][Compare]_vars

(***************************************************************************)
(* execute_code_no_input as a state machine: the arguments, then the call. *)
(***************************************************************************)
InitSandbox ==
    /\ exec_in \in [code : Programs, expected_answer : ExpectedAnswers,
                    language : Languages]
    /\ exec_out = NoCall
    /\ CmpIdle
    /\ PracticeIdle
    /\ ServerIdle
    /\ ThreadsIdle
    /\ PortalIdle

Execute ==
    /\ exec_out = NoCall
    /\ exec_out' = execute_code_no_input(exec_in.code, exec_in.expected_answer,
                                         exec_in.language)
    /\ UNCHANGED <<portal_vars, exec_in, cmp_vars, practice_vars, server_vars, thread_vars>>

SpecSandbox == InitSandbox /\ [][Execute]_vars

(***************************************************************************)
(* Text helpers of validate_and_fix_problem: the regular expressions, the  *)
(* split on commas, int(), and the two-decimal formatting.                 *)
(***************************************************************************)
\* The text literals the validator looks for.
T ==
    [average |-> <<"a", "v", "e", "r", "a", "g", "e">>,
     mean |-> <<"m", "e", "a", "n">>,
     sum |-> <<"s", "u", "m">>,
     between |-> <<"b", "e", "t", "w", "e", "e", "n">>,
     from |-> <<"f", "r", "o", "m">>,
     and |-> <<"a", "n", "d">>,
     to |-> <<"t", "o">>,
     even |-> <<"e", "v", "e", "n">>,
     odd |-> <<"o", "d", "d">>,
     prime |-> <<"p", "r", "i", "m", "e">>,
     largest |-> <<"l", "a", "r", "g", "e", "s", "t">>,
     smallest |-> <<"s", "m", "a", "l", "l", "e", "s", "t">>,
     maximum |-> <<"m", "a", "x", "i", "m", "u", "m">>,
     minimum |-> <<"m", "i", "n", "i", "m", "u", "m">>]

\* "second largest"
T_second_largest == <<"s", "e", "c", "o", "n", "d", " ">> \o T.largest

IsDigit(c) == IndexIn(c, Digits) > 0

\* The index of the first c in s, 0 when there is none.
FirstIndex(c, s) ==
    IF \E i \in DOMAIN s : s[i] = c
    THEN CHOOSE i \in DOMAIN s : s[i] = c /\ \A j \in 1 .. (i - 1) : s[j] # c
    ELSE 0

\* s.split(c) for a one-character c
RECURSIVE Split(_, _)
Split(s, c) ==
    LET i == FirstIndex(c, s)
    IN  IF i = 0 THEN <<s>>
        ELSE <<SubSeq(s, 1, i - 1)>> \o Split(SubSeq(s, i + 1, Len(s)), c)

\* The character class [\d\s.,] of line 400, with \- added at line 456.
InListClass(c, minus) ==
    IsDigit(c) \/ c \in Whitespace \/ c \in {".", ","} \/ (minus /\ c = "-")

NoMatch == [matched |-> FALSE]

\* Whether \[([...]+)\] matches with its "[" at index i: one or more class
\* characters, then "]".
BracketedAt(s, i, minus) ==
    /\ s[i] = "["
    /\ \E j \in (i + 2) .. Len(s) :
          s[j] = "]" /\ \A k \in (i + 1) .. (j - 1) : InListClass(s[k], minus)

\* re.findall(r'\[([\d\s.,]+)\]', s)[0]: group 1 of the leftmost match.
FirstBracketed(s, minus) ==
    IF \E i \in DOMAIN s : BracketedAt(s, i, minus)
    THEN LET i == CHOOSE i \in DOMAIN s :
                    /\ BracketedAt(s, i, minus)
                    /\ \A h \in 1 .. (i - 1) : ~BracketedAt(s, h, minus)
             j == CHOOSE j \in (i + 2) .. Len(s) :
                    s[j] = "]" /\ \A k \in (i + 1) .. (j - 1) : s[k] # "]"
         IN  [matched |-> TRUE, group |-> SubSeq(s, i + 1, j - 1)]
    ELSE NoMatch

\* The index after the longest run of whitespace that starts at index i
\* (i itself when the run is empty).
AfterSpaces(s, i) ==
    IF i < 1 \/ i > Len(s) THEN i
    ELSE CHOOSE j \in i .. (Len(s) + 1) :
            /\ \A k \in i .. (j - 1) : s[k] \in Whitespace
            /\ j = Len(s) + 1 \/ s[j] \notin Whitespace

\* The same for a run of digits.
AfterDigits(s, i) ==
    IF i < 1 \/ i > Len(s) THEN i
    ELSE CHOOSE j \in i .. (Len(s) + 1) :
            /\ \A k \in i .. (j - 1) : IsDigit(s[k])
            /\ j = Len(s) + 1 \/ ~IsDigit(s[j])

StartsAt(s, i, word) ==
    /\ i >= 1
    /\ i + Len(word) - 1 <= Len(s)
    /\ SubSeq(s, i, i + Len(word) - 1) = word

\* (?:between|from)\s+(\d+)\s+(?:and|to)\s+(\d+) tried with its first
\* character at index i.  Each \s+ and \d+ takes its longest run: a shorter
\* one is followed by a character the next element cannot match.
RangeAt(s, i) ==
    LET k1 == IF StartsAt(s, i, T.between) THEN i + Len(T.between)
              ELSE IF StartsAt(s, i, T.from) THEN i + Len(T.from)
              ELSE 0
        d1 == AfterSpaces(s, k1)
        e1 == AfterDigits(s, d1)
        k2 == AfterSpaces(s, e1)
        w2 == IF StartsAt(s, k2, T.and) THEN k2 + Len(T.and)
              ELSE IF StartsAt(s, k2, T.to) THEN k2 + Len(T.to)
              ELSE 0
        d2 == AfterSpaces(s, w2)
        e2 == AfterDigits(s, d2)
    IN  IF k1 # 0 /\ d1 > k1 /\ e1 > d1 /\ k2 > e1 /\ w2 # 0 /\ d2 > w2 /\ e2 > d2
        THEN [matched |-> TRUE, group1 |-> SubSeq(s, d1, e1 - 1),
              group2 |-> SubSeq(s, d2, e2 - 1)]
        ELSE NoMatch

\* re.search of that pattern: the leftmost index where it matches.
RangeSearch(s) ==
    IF \E i \in DOMAIN s : RangeAt(s, i).matched
    THEN RangeAt(s, CHOOSE i \in DOMAIN s :
                        /\ RangeAt(s, i).matched
                        /\ \A h \in 1 .. (i - 1) : ~RangeAt(s, h).matched)
    ELSE NoMatch

\* int(s) for the texts the list pattern lets through: surrounding
\* whitespace, an optional sign, one or more digits.
ParseInt(s) ==
    LET t == Strip(s)
        u == IF t # <<>> /\ Head(t) \in {"+", "-"} THEN Tail(t) ELSE t
    IN  IF u # <<>> /\ \A i \in DOMAIN u : IsDigit(u[i])
        THEN [ok |-> TRUE,
              n |-> IF Head(t) = "-" THEN 0 - DigitsValue(u) ELSE DigitsValue(u)]
        ELSE [ok |-> FALSE, n |-> 0]

(***************************************************************************)
(* validate_and_fix_problem(problem_data).  A problem is a function from   *)
(* its keys to Python values.  The operator gives the dict returned, or    *)
(* the exception that leaves the function, and what it did on the way:     *)
(*   branch          which archetype's branch ran its computation          *)
(*   correct_answer  the answer that branch recomputed, PyNone for none    *)
(***************************************************************************)
\* d.get(key, default)
Get(d, key, default) == IF key \in DOMAIN d THEN d[key] ELSE default

\* d[key] = value
SetItem(d, key, value) ==
    [k \in DOMAIN d \cup {key} |-> IF k = key THEN value ELSE d[k]]

AttributeError == Exc("Exception", <<"object has no attribute 'lower'">>)

\* float(v) of a Python value
FloatOf(v) ==
    CASE v.t = "str" -> ParseFloat(Strip(v.s))
      [] v.t = "int" -> [ok |-> TRUE, num |-> v.n, den |-> 1]
      [] v.t = "bool" -> [ok |-> TRUE, num |-> IF v.b THEN 1 ELSE 0, den |-> 1]
      [] OTHER -> NotANumber

\* sum(numbers) on exact fractions
RECURSIVE SumOfFractions(_)
SumOfFractions(numbers) ==
    IF numbers = <<>> THEN [num |-> 0, den |-> 1]
    ELSE LET rest == SumOfFractions(Tail(numbers))
             x == Head(numbers)
         IN  [num |-> x.num * rest.den + rest.num * x.den, den |-> x.den * rest.den]

\* The hundredths f"{x:.2f}" prints for x = num / den >= 0: the nearest, a
\* tie going to the even one.
Hundredths(num, den) ==
    LET q == (100 * num) \div den
        r == (100 * num) % den
    IN  IF 2 * r > den \/ (2 * r = den /\ q % 2 = 1) THEN q + 1 ELSE q

\* f"{x:.2f}" from the hundredths
FormatHundredths(h) ==
    NatToText(h \div 100) \o <<".", Digits[((h \div 10) % 10) + 1], Digits[(h % 10) + 1]>>

\* range(start, end + 1)
Range(start, end) == start .. end

is_prime(n) == n >= 2 /\ \A i \in 2 .. (n - 1) : (i * i <= n) => (n % i # 0)

RECURSIVE SumOfSet(_)
SumOfSet(S) == IF S = {} THEN 0
               ELSE LET x == CHOOSE x \in S : TRUE IN x + SumOfSet(S \ {x})

SetMax(S) == CHOOSE x \in S : \A y \in S : y <= x

SetMin(S) == CHOOSE x \in S : \A y \in S : x <= y

Validated(problem_data, branch, correct_answer) ==
    [raised |-> NoExc, problem_data |-> problem_data, branch |-> branch,
     correct_answer |-> correct_answer]

\* [\d\s.,]+ split on commas and each piece read by float(x.strip())
ParsedFloats(group) ==
    LET pieces == Split(Remove(group, " "), ",")
    IN  [i \in DOMAIN pieces |-> ParseFloat(Strip(pieces[i]))]

\* The average compared as the other two branches compare: by its text.
AverageChecked_textual(problem_data, expected, numbers) ==
    IF \E i \in DOMAIN numbers : ~numbers[i].ok
    THEN Validated(problem_data, "none", PyNone)
    ELSE
    LET total == SumOfFractions(numbers)
        h == Hundredths(total.num, total.den * Len(numbers))
        correct_answer == FormatHundredths(h)
    IN  IF PyStr(correct_answer) # expected
        THEN Validated(SetItem(problem_data, "expected_answer", PyStr(correct_answer)),
                       "average", PyStr(correct_answer))
        ELSE Validated(problem_data, "average", PyStr(correct_answer))

\* Lines 407-415: numbers are the floats read from the list.
AverageChecked(problem_data, expected, numbers) ==
    IF \E i \in DOMAIN numbers : ~numbers[i].ok
    THEN Validated(problem_data, "none", PyNone)
    ELSE
    LET total == SumOfFractions(numbers)
        h == Hundredths(total.num, total.den * Len(numbers))
        correct_answer == FormatHundredths(h)
        claimed == FloatOf(expected)
    IN  IF ~claimed.ok
        THEN Validated(problem_data, "average", PyStr(correct_answer))
        ELSE IF Abs(h * claimed.den - 100 * claimed.num) > claimed.den
        THEN Validated(SetItem(problem_data, "expected_answer", PyStr(correct_answer)),
                       "average", PyStr(correct_answer))
        ELSE Validated(problem_data, "average", PyStr(correct_answer))

\* Lines 399-418: the average branch.  Any exception inside is logged and
\* the problem returned as it came.  (x \in {e} names the value of e.)
ValidateAverage(problem_data, description, expected) ==
    CHOOSE result \in
        {IF numbers_match.matched
         THEN CHOOSE checked \in
                {AverageChecked(problem_data, expected, numbers) :
                    numbers \in {ParsedFloats(numbers_match.group)}} : TRUE
         ELSE Validated(problem_data, "none", PyNone) :
            numbers_match \in {FirstBracketed(description, FALSE)}} : TRUE

\* Lines 426-449: the bounds are the two groups of range_match.
SumChecked(problem_data, lower, expected, start, end) ==
    LET correct_sum ==
            IF Contains(T.even, lower)
            THEN SumOfSet({i \in Range(start, end) : i % 2 = 0})
            ELSE IF Contains(T.odd, lower)
            THEN SumOfSet({i \in Range(start, end) : i % 2 = 1})
            ELSE IF Contains(T.prime, lower)
            THEN SumOfSet({i \in Range(start, end) : is_prime(i)})
            ELSE SumOfSet(Range(start, end))
    IN  CHOOSE result \in
            {IF correct_answer # expected
             THEN Validated(SetItem(problem_data, "expected_answer", correct_answer),
                            "sum", correct_answer)
             ELSE Validated(problem_data, "sum", correct_answer) :
                correct_answer \in {PyStr(Str(PyInt(correct_sum)))}} : TRUE

\* Lines 422-452: the range-sum branch, on description.lower().
ValidateSum(problem_data, lower, expected) ==
    CHOOSE result \in
        {IF range_match.matched
         THEN SumChecked(problem_data, lower, expected,
                         DigitsValue(range_match.group1),
                         DigitsValue(range_match.group2))
         ELSE Validated(problem_data, "none", PyNone) :
            range_match \in {RangeSearch(lower)}} : TRUE

\* [\d\s.,\-]+ split on commas and each piece read by int(x.strip())
ParsedInts(group) ==
    LET pieces == Split(Remove(group, " "), ",")
    IN  [i \in DOMAIN pieces |-> ParseInt(pieces[i])]

\* Lines 462-476: parsed are the integers read from the list.
ListChecked(problem_data, lower, expected, parsed) ==
    LET numbers == {parsed[i].n : i \in DOMAIN parsed}
        correct ==
            IF Contains(T_second_largest, lower)
            THEN IF Cardinality(numbers) > 1
                 THEN SetMax(numbers \ {SetMax(numbers)})
                 ELSE SetMax(numbers)
            ELSE IF Contains(T.largest, lower) \/ Contains(T.maximum, lower)
            THEN SetMax(numbers)
            ELSE SetMin(numbers)
    IN  IF \E i \in DOMAIN parsed : ~parsed[i].ok
        THEN Validated(problem_data, "none", PyNone)
        ELSE CHOOSE result \in
                {IF correct_answer # expected
                 THEN Validated(SetItem(problem_data, "expected_answer", correct_answer),
                                "list", correct_answer)
                 ELSE Validated(problem_data, "list", correct_answer) :
                    correct_answer \in {PyStr(Str(PyInt(correct)))}} : TRUE

\* Lines 456-479: the list branch.
ValidateList(problem_data, description, lower, expected) ==
    CHOOSE result \in
        {IF numbers_match.matched
         THEN CHOOSE checked \in
                {ListChecked(problem_data, lower, expected, parsed) :
                    parsed \in {ParsedInts(numbers_match.group)}} : TRUE
         ELSE Validated(problem_data, "none", PyNone) :
            numbers_match \in {FirstBracketed(description, TRUE)}} : TRUE

\* The branches of lines 398, 421 and 455 on the description and its
\* lower-case form.
ValidateText(problem_data, description, lower, expected) ==
    IF Contains(T.average, lower) \/ Contains(T.mean, lower)
    THEN ValidateAverage(problem_data, description, expected)
    ELSE IF Contains(T.sum, lower) /\ Contains(T.between, lower)
    THEN ValidateSum(problem_data, lower, expected)
    ELSE IF \E word \in {T.largest, T.smallest, T.maximum, T.minimum} :
                Contains(word, lower)
    THEN ValidateList(problem_data, description, lower, expected)
    ELSE Validated(problem_data, "none", PyNone)

validate_and_fix_problem(problem_data) ==
    CHOOSE result \in
        {IF description.t # "str"
         THEN [raised |-> AttributeError, problem_data |-> problem_data,
               branch |-> "none", correct_answer |-> PyNone]
         ELSE CHOOSE validated \in
                {ValidateText(problem_data, text, lower, expected) :
                    text \in {description.s}, lower \in {Lower(description.s)}} : TRUE :
            description \in {Get(problem_data, "description", PyStr(<<>>))},
            expected \in {Get(problem_data, "expected_answer", PyStr(<<>>))}} : TRUE

(***************************************************************************)
(* Problems for the validator.  A shape is what a description asks for;    *)
(* Describe writes it out as the text of a description, and the validator  *)
(* reads that text.                                                        *)
(***************************************************************************)
\* The most numbers of a list drawn from NumberPool.
MaxList == 3

\* The largest bound of a range drawn freely.
MaxBound == 4

NumberPool == {-1, 2, 4}

NumberLists ==
    UNION {[1 .. n -> NumberPool] : n \in 1 .. MaxList}
    \cup {<<1, 2, 3, 4>>, <<15, 8, 23, 42, 4, 16>>}

RECURSIVE JoinNumbers(_)
JoinNumbers(numbers) ==
    IF Len(numbers) = 1 THEN Str(PyInt(numbers[1]))
    ELSE Str(PyInt(Head(numbers))) \o <<",", " ">> \o JoinNumbers(Tail(numbers))

\* The list as a description shows it: [15, 8, 23]
ListText(numbers) == <<"[">> \o JoinNumbers(numbers) \o <<"]">>

AverageWords == {T.average, <<"M", "e", "a", "n">>}

Filters == {<<>>, T.even, T.odd, T.prime}

ExtremumWords == {T.largest, T.smallest, T.maximum, T.minimum, T_second_largest}

\* What a description may add after its question.
Remarks == {<<>>, <<" ", "T", "h", "a", "t", " ", "m", "e", "a", "n", "s", " ", "o", "n", "e", " ", "n", "u", "m", "b", "e", "r", " ", "o", "f", " ", "t", "h", "e", " ", "l", "i", "s", "t", ".">>}

\* Descriptions of no shape the validator knows: no keyword at all, "sum"
\* without "between", and a list under another question.
OtherTexts ==
    {<<"R", "e", "v", "e", "r", "s", "e", " ", "'", "a", "b", "c", "'", ".">>,
     <<"F", "i", "n", "d", " ", "t", "h", "e", " ", "s", "u", "m", " ", "o", "f", " ", "1", " ", "a", "n", "d", " ", "2", ".">>,
     <<"F", "i", "n", "d", " ", "t", "h", "e", " ", "m", "e", "d", "i", "a", "n", " ", "o", "f", " ", "[", "1", ",", " ", "2", "]", ".">>}

Shapes ==
    [kind : {"average"}, word : AverageWords, numbers : NumberLists]
    \cup [kind : {"other"}, text : OtherTexts]
    \cup [kind : {"sum"}, filter : Filters, phrasing : {"between", "from"},
          start : 0 .. MaxBound, end : 0 .. MaxBound]
    \cup {[kind |-> "sum", filter |-> T.prime, phrasing |-> "between",
           start |-> 1, end |-> 15]}
    \cup [kind : {"extremum"}, word : ExtremumWords, numbers : NumberLists,
          remark : Remarks]

Describe(shape) ==
    CASE shape.kind = "average" ->
            <<"F", "i", "n", "d", " ", "t", "h", "e", " ">> \o shape.word \o <<" ", "o", "f", " ">> \o ListText(shape.numbers) \o <<".">>
      [] shape.kind = "sum" ->
            <<"F", "i", "n", "d", " ", "t", "h", "e", " ", "s", "u", "m", " ", "o", "f", " ", "a", "l", "l", " ">>
            \o (IF shape.filter = <<>> THEN <<>> ELSE shape.filter \o <<" ">>)
            \o <<"n", "u", "m", "b", "e", "r", "s", " ">>
            \o (IF shape.phrasing = "between"
                THEN T.between \o <<" ">> \o NatToText(shape.start) \o <<" ">>
                     \o T.and \o <<" ">> \o NatToText(shape.end)
                ELSE T.from \o <<" ">> \o NatToText(shape.start) \o <<" ">>
                     \o T.to \o <<" ">> \o NatToText(shape.end))
            \o <<".">>
      [] shape.kind = "other" -> shape.text
      [] OTHER ->
            <<"F", "i", "n", "d", " ", "t", "h", "e", " ">> \o shape.word \o <<" ", "n", "u", "m", "b", "e", "r", " ", "i", "n", " ", "t", "h", "e", " ", "l", "i", "s", "t", " ">> \o ListText(shape.numbers)
            \o <<".">> \o shape.remark

\* The answers a provider claims: right for some shapes, wrong for others,
\* not a number, or a JSON number instead of a string.
ClaimedAnswers ==
    {PyStr(<<"2">>), PyStr(<<"2", ".", "5", "0">>), PyStr(<<"7">>),
     PyStr(<<"4", "1">>), PyStr(<<"n", "o", "n", "e">>), PyInt(2)}

ProblemOf(shape, claimed) ==
    [title |-> PyStr(<<"t">>), description |-> PyStr(Describe(shape)),
     expected_answer |-> claimed]

InitValidate ==
    /\ val_in \in [shape : Shapes, claimed : ClaimedAnswers]
    /\ val_out = NoCall
    /\ CmpIdle /\ ExecIdle /\ GenIdle /\ SessionIdle /\ ServerIdle /\ ThreadsIdle
    /\ PortalIdle

Validate ==
    /\ val_out = NoCall
    /\ val_out' = validate_and_fix_problem(ProblemOf(val_in.shape, val_in.claimed))
    /\ UNCHANGED <<portal_vars, val_in, cmp_vars, exec_vars, gen_vars, session_vars, server_vars,
                   thread_vars>>

SpecValidate == InitValidate /\ [][Validate]_vars

(***************************************************************************)
(* generate_coding_problem_no_input().  The provider's reply is a sequence *)
(* of pieces of text:                                                      *)
(*   fence_json  the delimiter ```json                                     *)
(*   fence       the delimiter ```                                         *)
(*   space       whitespace                                                *)
(*   prose       words that are not JSON                                   *)
(*   json        the text of one JSON document, v the value it encodes     *)
(* A JSON object is a function from its keys to values, as a problem is.   *)
(***************************************************************************)
PyDict(d) == [t |-> "dict", d |-> d]

PyList == [t |-> "list"]

FenceJson == [p |-> "fence_json"]

Fence == [p |-> "fence"]

Space == [p |-> "space"]

Prose == [p |-> "prose"]

Json(v) == [p |-> "json", v |-> v]

JSONDecodeError == Exc("Exception", <<"Expecting value">>)

ProviderError == Exc("Exception", <<"Connection error.">>)

ItemAssignmentError == Exc("Exception", <<"object does not support item assignment">>)

NoneTypeError == Exc("Exception", <<"'NoneType' object has no attribute 'strip'">>)

UnboundLocalError ==
    Exc("Exception", <<"cannot access local variable 'random' where it is not associated with a value">>)

\* text.split(sep): sep is found wherever a piece of one of the kinds is
\* (the text ``` is found inside ```json too).
RECURSIVE SplitAt(_, _)
SplitAt(text, kinds) ==
    IF \E i \in DOMAIN text : text[i].p \in kinds
    THEN LET i == CHOOSE i \in DOMAIN text :
                    /\ text[i].p \in kinds
                    /\ \A j \in 1 .. (i - 1) : text[j].p \notin kinds
         IN  <<SubSeq(text, 1, i - 1)>> \o SplitAt(SubSeq(text, i + 1, Len(text)), kinds)
    ELSE <<text>>

RECURSIVE StripPieces(_)
StripPieces(text) ==
    IF text # <<>> /\ Head(text).p = "space" THEN StripPieces(Tail(text))
    ELSE IF text # <<>> /\ text[Len(text)].p = "space"
    THEN StripPieces(SubSeq(text, 1, Len(text) - 1))
    ELSE text

\* Lines 638-641: the text between the code-fence delimiters, if any.
Unfenced(result_text) ==
    IF \E i \in DOMAIN result_text : result_text[i].p = "fence_json"
    THEN SplitAt(SplitAt(result_text, {"fence_json"})[2], {"fence", "fence_json"})[1]
    ELSE IF \E i \in DOMAIN result_text : result_text[i].p = "fence"
    THEN SplitAt(SplitAt(result_text, {"fence"})[2], {"fence"})[1]
    ELSE result_text

\* json.loads(text): one document and nothing else.
JsonLoads(text) ==
    IF Len(text) = 1 /\ text[1].p = "json"
    THEN [raised |-> NoExc, value |-> text[1].v]
    ELSE [raised |-> JSONDecodeError, value |-> PyNone]

Fallen(random_bound, exc) ==
    [returned |-> FALSE, random_bound |-> random_bound, exc |-> exc,
     problem |-> PyNone]

\* Lines 559-654: the try block.  It returns the validated problem, or an
\* exception is logged and control falls to the catalog below; random_bound
\* says whether `import random` (line 579), which makes random a local name
\* of the whole function, had run by then.
AskProvider(provider) ==
    IF provider.client = "raises" THEN Fallen(FALSE, ProviderError)
    ELSE IF provider.completion = "raises" THEN Fallen(TRUE, ProviderError)
    ELSE IF provider.content.t # "str" THEN Fallen(TRUE, NoneTypeError)
    ELSE
    CHOOSE outcome \in
        {IF loaded.raised # NoExc THEN Fallen(TRUE, loaded.raised)
         ELSE IF loaded.value.t # "dict" THEN Fallen(TRUE, ItemAssignmentError)
         ELSE CHOOSE returned \in
                {IF validated.raised # NoExc THEN Fallen(TRUE, validated.raised)
                 ELSE [returned |-> TRUE, random_bound |-> TRUE, exc |-> NoExc,
                       problem |-> validated.problem_data] :
                    validated \in {validate_and_fix_problem(
                                      SetItem(loaded.value.d, "ai_generated",
                                              PyBool(TRUE)))}} : TRUE :
            loaded \in {JsonLoads(StripPieces(Unfenced(
                           StripPieces(provider.content.s))))}} : TRUE

\* The catalog of lines 657-783, in its order.  The texts a problem only
\* carries along are single pieces; the multiplication sign of the fifth
\* description is written x.
fallback_problems == <<
    [title |-> PyStr(<<"Sum Even Numbers in Range">>),
     description |-> PyStr(<<"Find the sum of all even numbers from 1 to 20. Return the sum.">>),
     expected_answer |-> PyStr(<<"1", "1", "0">>),
     hint |-> PyStr(<<"Even numbers are 2, 4, 6, 8... Use a loop or formula">>),
     difficulty |-> PyStr(<<"easy">>),
     starter_code_python |-> PyStr(<<"def solution():\n    # Sum even numbers 1-20\n    pass">>),
     starter_code_javascript |-> PyStr(<<"function solution() {\n    // Sum even numbers 1-20\n}">>),
     starter_code_java |-> PyStr(<<"public class Solution {\n    public static int solution() {\n        return 0;\n    }\n}">>)],
    [title |-> PyStr(<<"Reverse a String">>),
     description |-> PyStr(<<"Reverse the string 'Python' and return it. Result should be 'nohtyP'.">>),
     expected_answer |-> PyStr(<<"n", "o", "h", "t", "y", "P">>),
     hint |-> PyStr(<<"You can use slicing [::-1] or a loop">>),
     difficulty |-> PyStr(<<"easy">>),
     starter_code_python |-> PyStr(<<"def solution():\n    # Reverse 'Python'\n    pass">>),
     starter_code_javascript |-> PyStr(<<"function solution() {\n    // Reverse 'Python'\n}">>),
     starter_code_java |-> PyStr(<<"public class Solution {\n    public static String solution() {\n        return \"\";\n    }\n}">>)],
    [title |-> PyStr(<<"Find Second Largest Number">>),
     description |-> PyStr(<<"Find the second largest number in the list [15, 8, 23, 42, 4, 16]. Return that number.">>),
     expected_answer |-> PyStr(<<"2", "3">>),
     hint |-> PyStr(<<"Sort the list or track the two largest values">>),
     difficulty |-> PyStr(<<"medium">>),
     starter_code_python |-> PyStr(<<"def solution():\n    # Find second largest in [15, 8, 23, 42, 4, 16]\n    pass">>),
     starter_code_javascript |-> PyStr(<<"function solution() {\n    // Find second largest\n}">>),
     starter_code_java |-> PyStr(<<"public class Solution {\n    public static int solution() {\n        return 0;\n    }\n}">>)],
    [title |-> PyStr(<<"Count Palindromes in List">>),
     description |-> PyStr(<<"Count how many palindromes are in ['racecar', 'hello', 'level', 'world', 'radar']. Return the count.">>),
     expected_answer |-> PyStr(<<"3">>),
     hint |-> PyStr(<<"A palindrome reads the same forwards and backwards">>),
     difficulty |-> PyStr(<<"medium">>),
     starter_code_python |-> PyStr(<<"def solution():\n    # Count palindromes\n    pass">>),
     starter_code_javascript |-> PyStr(<<"function solution() {\n    // Count palindromes\n}">>),
     starter_code_java |-> PyStr(<<"public class Solution {\n    public static int solution() {\n        return 0;\n    }\n}">>)],
    [title |-> PyStr(<<"Calculate Factorial">>),
     description |-> PyStr(<<"Calculate the factorial of 6. Factorial means 6 x 5 x 4 x 3 x 2 x 1. Return the result.">>),
     expected_answer |-> PyStr(<<"7", "2", "0">>),
     hint |-> PyStr(<<"Use a loop to multiply numbers from 1 to 6">>),
     difficulty |-> PyStr(<<"medium">>),
     starter_code_python |-> PyStr(<<"def solution():\n    # Calculate 6!\n    pass">>),
     starter_code_javascript |-> PyStr(<<"function solution() {\n    // Calculate 6!\n}">>),
     starter_code_java |-> PyStr(<<"public class Solution {\n    public static int solution() {\n        return 0;\n    }\n}">>)],
    [title |-> PyStr(<<"Find Missing Number in Sequence">>),
     description |-> PyStr(<<"Find the missing number in the sequence [1, 2, 3, 5, 6, 7, 8]. One number between 1-8 is missing. Return it.">>),
     expected_answer |-> PyStr(<<"4">>),
     hint |-> PyStr(<<"The sum of 1-8 should be 36. Find the difference.">>),
     difficulty |-> PyStr(<<"medium">>),
     starter_code_python |-> PyStr(<<"def solution():\n    # Find missing number\n    pass">>),
     starter_code_javascript |-> PyStr(<<"function solution() {\n    // Find missing number\n}">>),
     starter_code_java |-> PyStr(<<"public class Solution {\n    public static int solution() {\n        return 0;\n    }\n}">>)],
    [title |-> PyStr(<<"Fibonacci Number at Position">>),
     description |-> PyStr(<<"Find the Fibonacci number at position 7. Fibonacci sequence: 0, 1, 1, 2, 3, 5, 8, 13... Return the 7th number.">>),
     expected_answer |-> PyStr(<<"8">>),
     hint |-> PyStr(<<"Each number is the sum of the previous two">>),
     difficulty |-> PyStr(<<"medium">>),
     starter_code_python |-> PyStr(<<"def solution():\n    # Find 7th Fibonacci number\n    pass">>),
     starter_code_javascript |-> PyStr(<<"function solution() {\n    // Find 7th Fibonacci number\n}">>),
     starter_code_java |-> PyStr(<<"public class Solution {\n    public static int solution() {\n        return 0;\n    }\n}">>)],
    [title |-> PyStr(<<"Sum of Prime Numbers">>),
     description |-> PyStr(<<"Find the sum of all prime numbers between 1 and 15. Prime numbers are 2, 3, 5, 7, 11, 13. Return the sum.">>),
     expected_answer |-> PyStr(<<"4", "1">>),
     hint |-> PyStr(<<"Check each number if it's only divisible by 1 and itself">>),
     difficulty |-> PyStr(<<"hard">>),
     starter_code_python |-> PyStr(<<"def solution():\n    # Sum primes 1-15\n    pass">>),
     starter_code_javascript |-> PyStr(<<"function solution() {\n    // Sum primes 1-15\n}">>),
     starter_code_java |-> PyStr(<<"public class Solution {\n    public static int solution() {\n        return 0;\n    }\n}">>)],
    [title |-> PyStr(<<"Check Palindrome Phrase">>),
     description |-> PyStr(<<"Check if 'Was it a car or a cat I saw' is a palindrome when you ignore spaces and make it lowercase. Return True or False.">>),
     expected_answer |-> PyStr(<<"T", "r", "u", "e">>),
     hint |-> PyStr(<<"Remove spaces, convert to lowercase, then compare with reverse">>),
     difficulty |-> PyStr(<<"hard">>),
     starter_code_python |-> PyStr(<<"def solution():\n    # Check if palindrome\n    pass">>),
     starter_code_javascript |-> PyStr(<<"function solution() {\n    // Check if palindrome\n}">>),
     starter_code_java |-> PyStr(<<"public class Solution {\n    public static boolean solution() {\n        return false;\n    }\n}">>)],
    [title |-> PyStr(<<"Find Duplicate in List">>),
     description |-> PyStr(<<"Find the number that appears twice in [1, 2, 3, 4, 5, 3, 6, 7]. Return the duplicate number.">>),
     expected_answer |-> PyStr(<<"3">>),
     hint |-> PyStr(<<"Use a set to track which numbers you've seen">>),
     difficulty |-> PyStr(<<"medium">>),
     starter_code_python |-> PyStr(<<"def solution():\n    # Find duplicate\n    pass">>),
     starter_code_javascript |-> PyStr(<<"function solution() {\n    // Find duplicate\n}">>),
     starter_code_java |-> PyStr(<<"public class Solution {\n    public static int solution() {\n        return 0;\n    }\n}">>)],
    [title |-> PyStr(<<"Vowel to Consonant Ratio">>),
     description |-> PyStr(<<"In the word 'education', count vowels and consonants. Return the difference (vowels - consonants).">>),
     expected_answer |-> PyStr(<<"0">>),
     hint |-> PyStr(<<"Vowels: a,e,i,o,u. Count both and subtract.">>),
     difficulty |-> PyStr(<<"medium">>),
     starter_code_python |-> PyStr(<<"def solution():\n    # Count difference\n    pass">>),
     starter_code_javascript |-> PyStr(<<"function solution() {\n    // Count difference\n}">>),
     starter_code_java |-> PyStr(<<"public class Solution {\n    public static int solution() {\n        return 0;\n    }\n}">>)],
    [title |-> PyStr(<<"Find Most Frequent Character">>),
     description |-> PyStr(<<"Find the most frequent character in 'mississippi'. Return the character.">>),
     expected_answer |-> PyStr(<<"i">>),
     hint |-> PyStr(<<"Count occurrences of each letter">>),
     difficulty |-> PyStr(<<"medium">>),
     starter_code_python |-> PyStr(<<"def solution():\n    # Find most frequent char\n    pass">>),
     starter_code_javascript |-> PyStr(<<"function solution() {\n    // Find most frequent char\n}">>),
     starter_code_java |-> PyStr(<<"public class Solution {\n    public static String solution() {\n        return \"\";\n    }\n}">>)]
>>

\* The configuration the function reads and what the provider does with the
\* request: GROQ_AVAILABLE and GROQ_API_KEY (whether it is set), whether
\* Groq(...) and chat.completions.create(...) raise, the reply's content, and
\* the index random.choice picks in the catalog.
generate_coding_problem_no_input(provider) ==
    CHOOSE outcome \in
        {IF attempt.returned
         THEN [raised |-> NoExc, problem |-> attempt.problem, fell |-> attempt.exc]
         ELSE IF ~attempt.random_bound
         THEN [raised |-> UnboundLocalError, problem |-> PyNone, fell |-> attempt.exc]
         ELSE [raised |-> NoExc,
               problem |-> SetItem(fallback_problems[provider.choice], "ai_generated",
                                   PyBool(FALSE)),
               fell |-> attempt.exc] :
            attempt \in {IF provider.GROQ_AVAILABLE /\ provider.GROQ_API_KEY
                         THEN AskProvider(provider)
                         ELSE Fallen(FALSE, NoExc)}} : TRUE

(***************************************************************************)
(* Provider replies for the generator.                                     *)
(***************************************************************************)
\* The keys a reply's problem has beside title, description and
\* expected_answer.
ReplyExtras ==
    [hint |-> PyStr(<<"h">>), difficulty |-> PyStr(<<"easy beginner level">>),
     starter_code_python |-> PyStr(<<"def solution():\n    pass">>),
     starter_code_javascript |-> PyStr(<<"function solution() {\n}">>),
     starter_code_java |-> PyStr(<<"public class Solution {\n}">>)]

\* d without the key
Without(d, key) == [k \in DOMAIN d \ {key} |-> d[k]]

ReplyShapes ==
    {[kind |-> "average", word |-> T.average, numbers |-> <<1, 2, 3, 4>>],
     [kind |-> "sum", filter |-> T.prime, phrasing |-> "between", start |-> 1,
      end |-> 15],
     [kind |-> "extremum", word |-> T_second_largest,
      numbers |-> <<15, 8, 23, 42, 4, 16>>, remark |-> <<>>]}

\* A problem of no archetype: the validator leaves it alone.
PlainProblem ==
    [title |-> PyStr(<<"t">>), description |-> PyStr(<<"R", "e", "v", "e", "r", "s", "e", " ", "'", "a", "b", "c", "'", ".">>),
     expected_answer |-> PyStr(<<"c", "b", "a">>)]

WellFormedProblems ==
    {ProblemOf(shape, claimed) @@ ReplyExtras :
        shape \in ReplyShapes, claimed \in {PyStr(<<"2">>), PyStr(<<"4", "1">>)}}
    \cup {PlainProblem @@ ReplyExtras, PlainProblem}

RequiredKeys == {"title", "description", "expected_answer"}

\* Objects lacking a required key, or holding null where text is required.
DeficientProblems ==
    {Without(PlainProblem @@ ReplyExtras, key) : key \in RequiredKeys}
    \cup {<<>>, [PlainProblem EXCEPT !.description = PyNone]}

Documents ==
    {PyDict(d) : d \in WellFormedProblems \cup DeficientProblems}
    \cup {PyList, PyStr(<<"t">>), PyInt(2)}

\* The ways a reply wraps its document.
Wrapped(doc) ==
    {<<Json(doc)>>,
     <<Space, Json(doc), Space>>,
     <<FenceJson, Space, Json(doc), Space, Fence>>,
     <<Fence, Space, Json(doc), Space, Fence>>,
     <<Prose, Space, FenceJson, Json(doc), Fence, Space, Prose>>,
     <<Prose, Space, Json(doc)>>}

Replies ==
    UNION {Wrapped(doc) : doc \in Documents}
    \cup {<<>>, <<Prose>>, <<FenceJson>>, <<Fence, Prose, Fence>>}

Contents == {PyStr(reply) : reply \in Replies} \cup {PyNone}

\* The reply matters only when the provider is asked and answers.
Providers ==
    [GROQ_AVAILABLE : {TRUE}, GROQ_API_KEY : {TRUE}, client : {"ok"},
     completion : {"ok"}, content : Contents \ {PyNone},
     choice : DOMAIN fallback_problems]
    \cup [GROQ_AVAILABLE : BOOLEAN, GROQ_API_KEY : BOOLEAN, client : {"ok", "raises"},
          completion : {"ok", "raises"}, content : {PyNone},
          choice : DOMAIN fallback_problems]

InitGenerate ==
    /\ gen_in \in Providers
    /\ gen_out = NoCall
    /\ CmpIdle /\ ExecIdle /\ ValIdle /\ SessionIdle /\ ServerIdle /\ ThreadsIdle
    /\ PortalIdle

Generate ==
    /\ gen_out = NoCall
    /\ gen_out' = generate_coding_problem_no_input(gen_in)
    /\ UNCHANGED <<portal_vars, gen_in, cmp_vars, exec_vars, val_vars, session_vars, server_vars,
                   thread_vars>>

SpecGenerate == InitGenerate /\ [][Generate]_vars


(***************************************************************************)
(* The server: the handlers generate_problem and run_code over the         *)
(* code_problems table.  A handler runs from request to response without   *)
(* yielding (an async def with no await), so each is one step.             *)
(***************************************************************************)
\* The most rows of code_problems.
MaxProblems == 2

\* The submissions sent to the server: none or one top-level line.
Submissions == {<<>>} \cup {<<line>> : line \in Lines}

ServerLanguages == {"python", "java"}

\* HTTPException(status_code, detail): an Exception.
HTTPException(status_code, detail) ==
    [base |-> "Exception", status_code |-> status_code, detail |-> detail]

\* str(e) of HTTPException(404, "Problem not found"): "404: Problem not found"
\* where the installed Starlette defines __str__, else the empty string.
StrOfNotFound == {<<"404: Problem not found">>, <<>>}

HttpError(exc) ==
    [answered |-> TRUE, status |-> exc.status_code, detail |-> exc.detail,
     sandbox |-> NoCall]

\* `score = 10 if success else 0`
Score_by_success(result) == IF result.success THEN 10 ELSE 0

\* `score = 10 if result["passed"] else 0`
Score(result) == IF result.passed THEN 10 ELSE 0

\* output_text of run_code
OutputText(result) ==
    <<"Expected: ">> \o result.expected \o <<"\n", "Your Output: ">> \o result.output
    \o <<"\n", "\n">>
    \o (IF result.passed THEN <<"CORRECT! Well done!", "\n">>
        ELSE <<"INCORRECT. Try again!", "\n">>)
    \o (IF result.error # PyNone /\ result.error.s # <<>>
        THEN <<"\n", "Error: ">> \o result.error.s \o <<"\n">>
        ELSE <<>>)

\* The dict run_code returns.
RunResponse(result) ==
    [success |-> result.success, output |-> OutputText(result),
     passed |-> result.passed, score |-> Score(result),
     expected |-> result.expected, actual |-> result.output,
     error |-> result.error]

(***************************************************************************)
(* test_cases is stored as JSON text: json.dumps([{"expected": answer}])   *)
(* on the way in (line 991), json.loads on the way out (line 1045).  The   *)
(* text is the opening piece, the string literal character by character,   *)
(* and the closing piece.  The database itself (its schema and driver are  *)
(* not part of src/) hands back the text it was given.                     *)
(***************************************************************************)
\* The escape json.dumps writes for a character of a string.
JsonEscapes == [c \in {"\"", "\\", "\n"} |->
                  IF c = "\"" THEN <<"\\", "\"">>
                  ELSE IF c = "\\" THEN <<"\\", "\\">>
                  ELSE <<"\\", "n">>]

RECURSIVE JsonEscape(_)
JsonEscape(s) ==
    IF s = <<>> THEN <<>>
    ELSE (IF Head(s) \in DOMAIN JsonEscapes THEN JsonEscapes[Head(s)] ELSE <<Head(s)>>)
         \o JsonEscape(Tail(s))

\* The characters a string literal's inside stands for; not ok where a quote
\* is unescaped or an escape is unknown or unfinished.
RECURSIVE JsonUnescape(_)
JsonUnescape(s) ==
    IF s = <<>> THEN [ok |-> TRUE, s |-> <<>>]
    ELSE IF Head(s) = "\"" THEN [ok |-> FALSE, s |-> <<>>]
    ELSE IF Head(s) # "\\"
    THEN CHOOSE r \in {[ok |-> rest.ok, s |-> <<Head(s)>> \o rest.s] :
                          rest \in {JsonUnescape(Tail(s))}} : TRUE
    ELSE IF Len(s) < 2 \/ \A c \in DOMAIN JsonEscapes : JsonEscapes[c][2] # s[2]
    THEN [ok |-> FALSE, s |-> <<>>]
    ELSE CHOOSE r \in
            {[ok |-> rest.ok,
              s |-> <<CHOOSE c \in DOMAIN JsonEscapes : JsonEscapes[c][2] = s[2]>>
                    \o rest.s] :
                rest \in {JsonUnescape(SubSeq(s, 3, Len(s)))}} : TRUE

\* json.dumps([{"expected": expected_answer}]) of a str
DumpsTestCases(expected_answer) ==
    <<"[{\"expected\": ">> \o <<"\"">> \o JsonEscape(expected_answer) \o <<"\"">>
    \o <<"}]">>

\* json.loads reading the literal's characters as they stand.
LoadsExpected_verbatim(test_cases) ==
    [raised |-> NoExc, expected |-> SubSeq(test_cases, 3, Len(test_cases) - 2)]

\* json.loads(problem["test_cases"])[0]["expected"]
LoadsExpected(test_cases) ==
    IF /\ Len(test_cases) >= 4
       /\ test_cases[1] = "[{\"expected\": "
       /\ test_cases[2] = "\""
       /\ test_cases[Len(test_cases) - 1] = "\""
       /\ test_cases[Len(test_cases)] = "}]"
    THEN CHOOSE r \in
            {IF inside.ok THEN [raised |-> NoExc, expected |-> inside.s]
             ELSE [raised |-> JSONDecodeError, expected |-> <<>>] :
                inside \in {JsonUnescape(SubSeq(test_cases, 3, Len(test_cases) - 2))}} :
            TRUE
    ELSE [raised |-> JSONDecodeError, expected |-> <<>>]

(***************************************************************************)
(* generate_problem, lines 974-1020.                                       *)
(***************************************************************************)
\* str(KeyError(key))
KeyError == [title |-> Exc("Exception", <<"'title'">>),
             description |-> Exc("Exception", <<"'description'">>),
             expected_answer |-> Exc("Exception", <<"'expected_answer'">>)]

\* Lines 987-991 subscript problem_data with these keys, in this order.
Subscripted == <<"title", "description", "expected_answer">>

\* The dict of lines 1005-1016.
GenerateResponse(problem_id, problem_data) ==
    [id |-> problem_id,
     title |-> problem_data["title"],
     description |-> problem_data["description"],
     difficulty |-> PyStr(<<"Easy">>),
     expected_answer |-> problem_data["expected_answer"],
     hint |-> Get(problem_data, "hint", PyStr(<<>>)),
     starter_code_python |-> Get(problem_data, "starter_code_python", PyStr(<<>>)),
     starter_code_javascript |-> Get(problem_data, "starter_code_javascript", PyStr(<<>>)),
     starter_code_java |-> Get(problem_data, "starter_code_java", PyStr(<<>>)),
     ai_generated |-> Get(problem_data, "ai_generated", PyBool(FALSE))]

\* What the handler does given the provider and the id the insert would
\* get: the row it inserts (NoCall when none) and its answer.  Whatever is
\* raised inside the try block, by the generator or by a subscript, is
\* caught at line 1018 and answered as a 500 whose detail is str(e).
generate_problem(provider, problem_id) ==
    CHOOSE outcome \in
        {IF generated.raised # NoExc
         THEN [row |-> NoCall,
               response |-> HttpError(HTTPException(500, generated.raised.msg))]
         ELSE IF \E i \in DOMAIN Subscripted : Subscripted[i] \notin DOMAIN generated.problem
         THEN [row |-> NoCall,
               response |->
                   HttpError(HTTPException(500,
                       KeyError[Subscripted[
                           CHOOSE i \in DOMAIN Subscripted :
                               /\ Subscripted[i] \notin DOMAIN generated.problem
                               /\ \A j \in 1 .. (i - 1) :
                                     Subscripted[j] \in DOMAIN generated.problem]].msg))]
         ELSE [row |-> [test_cases |->
                           DumpsTestCases(generated.problem["expected_answer"].s)],
               response |-> [answered |-> TRUE, status |-> 200, sandbox |-> NoCall,
                             body |-> GenerateResponse(problem_id, generated.problem)]] :
            generated \in {generate_coding_problem_no_input(provider)}} : TRUE

\* The provider as the server meets it: unconfigured, failing, or replying
\* with a problem (of no archetype, its answer ending in a line break, or an
\* average the validator corrects), with an object lacking the fields a
\* problem needs, or with no JSON at all.
ServerProblems ==
    {[PlainProblem EXCEPT !.expected_answer = PyStr(<<"4", "2", "\n">>)] @@ ReplyExtras,
     ProblemOf([kind |-> "average", word |-> T.average, numbers |-> <<1, 2, 3, 4>>],
               PyStr(<<"2">>))}

ServerReplies ==
    {<<Json(PyDict(d))>> : d \in ServerProblems}
    \cup {<<FenceJson, Json(PyDict(Without(PlainProblem, key))), Fence>> :
             key \in RequiredKeys}
    \cup {<<Json(PyDict(<<>>))>>, <<Json(PyList)>>, <<Prose>>}

ServerProviders ==
    [GROQ_AVAILABLE : {TRUE}, GROQ_API_KEY : {TRUE}, client : {"ok"},
     completion : {"ok"}, content : {PyStr(reply) : reply \in ServerReplies},
     choice : {1}]
    \cup [GROQ_AVAILABLE : {TRUE}, GROQ_API_KEY : BOOLEAN, client : {"ok"},
          completion : {"raises"}, content : {PyNone}, choice : {1}]

\* generate_problem: the problem generate_coding_problem_no_input produced is
\* inserted, its expected answer inside test_cases, and returned with its id.
GenerateProblem ==
    /\ Len(code_problems) < MaxProblems
    /\ \E provider \in ServerProviders :
        \E handled \in {generate_problem(provider, Len(code_problems) + 1)} :
            /\ code_problems' = IF handled.row = NoCall THEN code_problems
                                ELSE Append(code_problems, handled.row)
            /\ issued' = IF handled.row = NoCall THEN issued
                         ELSE Append(issued, handled.response.body.expected_answer)
            /\ request' = [handler |-> "generate_problem", provider |-> provider]
            /\ response' = handled.response
    /\ UNCHANGED <<portal_vars, code_submissions, cmp_vars, practice_vars, exec_vars, thread_vars>>

\* run_code, lines 1029-1083.  The HTTPException raised for a missing problem
\* is raised inside the try block whose `except Exception` re-raises it as a
\* 500 with detail str(e).  An exception of the sandbox that `except
\* Exception` does not catch leaves the handler unanswered.
RunCode ==
    \E code \in Submissions, language \in ServerLanguages,
       problem_id \in 1 .. (MaxProblems + 1) :
        /\ request' = [handler |-> "run_code", code |-> code, language |-> language,
                       problem_id |-> problem_id]
        /\ IF problem_id \notin DOMAIN code_problems
           THEN \E text \in StrOfNotFound :
                   LET e == HTTPException(404, <<"Problem not found">>)
                   IN  response' = IF Catches(e)
                                   THEN HttpError(HTTPException(500, text))
                                   ELSE HttpError(e)
           ELSE LET loaded == LoadsExpected(code_problems[problem_id].test_cases)
                    run == execute_code_no_input(code, loaded.expected, language)
                IN  response' = IF loaded.raised # NoExc
                                THEN HttpError(HTTPException(500, loaded.raised.msg))
                                ELSE IF run.returned
                                THEN [answered |-> TRUE, status |-> 200,
                                      sandbox |-> run,
                                      body |-> RunResponse(run.result)]
                                ELSE [answered |-> FALSE, sandbox |-> run,
                                      exc |-> run.propagated]
        /\ UNCHANGED <<portal_vars, code_problems, code_submissions, issued, cmp_vars, practice_vars,
                       exec_vars, thread_vars>>

(***************************************************************************)
(* submit_coding_session, lines 1091-1149, over the code_submissions       *)
(* table.  A row is [user_id, problem, result_summary, created_at]: the    *)
(* JSON object of result_summary as a record, created_at as the number of  *)
(* its day; rows stand in the order of their created_at.  The summary's    *)
(* timestamp is left out.                                                  *)
(***************************************************************************)
\* LIMIT 10
Limit == 10

\* CURDATE(), and the day before.
Today == 2

Yesterday == 1

Users == {1, 2}

\* A float with one decimal, in tenths.
Float1(tenths) == [t |-> "float", tenths |-> tenths]

\* round(total / count, 1): Python rounds the double to the nearest tenth,
\* an exact half to the even one.  A mean of at most 11 scores that are
\* multiples of 5 is halfway between two tenths only at a multiple of 1/4,
\* which a double holds exactly.
Round1(total, count) ==
    LET q == (10 * total) \div count
        r == (10 * total) % count
    IN  Float1(IF 2 * r < count THEN q
               ELSE IF 2 * r > count THEN q + 1
               ELSE IF q % 2 = 0 THEN q ELSE q + 1)

\* The WHERE clause of lines 1097-1099.
Selected(row, user_id) ==
    /\ row.user_id = user_id
    /\ "is_submission" \in DOMAIN row.result_summary
    /\ row.result_summary["is_submission"] = TRUE
    /\ row.created_at = Today

\* The rows fetched were the query ORDER BY created_at ASC.
Fetched_oldest_first(table, user_id) ==
    LET matching == {i \in DOMAIN table : Selected(table[i], user_id)}
    IN  {i \in matching : Cardinality({j \in matching : j < i}) < Limit}

\* ORDER BY created_at DESC LIMIT 10: the positions of the rows fetched.
Fetched(table, user_id) ==
    LET matching == {i \in DOMAIN table : Selected(table[i], user_id)}
    IN  {i \in matching : Cardinality({j \in matching : j > i}) < Limit}

\* sum(scores), scores holding summary.get("score", 0) of each fetched row
RECURSIVE SumOfScores(_, _)
SumOfScores(table, positions) ==
    IF positions = {} THEN 0
    ELSE LET i == CHOOSE i \in positions : TRUE
         IN  Get(table[i].result_summary, "score", 0)
             + SumOfScores(table, positions \ {i})

\* The row of lines 1119-1133.
SessionSummary(user_id, avg_score, problems_solved) ==
    [user_id |-> user_id, problem |-> "SESSION_SUMMARY",
     result_summary |-> [is_session_summary |-> TRUE, session_score |-> avg_score,
                         problems_solved |-> problems_solved],
     created_at |-> Today]

\* What the handler appends to the table and what it answers.
submit_coding_session(table, user_id) ==
    CHOOSE outcome \in
        {IF submissions = {}
         THEN [inserted |-> <<>>,
               body |-> [message |-> "No submissions found today", score |-> PyInt(0)]]
         ELSE CHOOSE saved \in
                {[inserted |-> <<SessionSummary(user_id, avg_score,
                                                Cardinality(submissions))>>,
                  body |-> [message |-> "Session saved successfully",
                            score |-> avg_score,
                            problems_solved |-> Cardinality(submissions)]] :
                    avg_score \in {Round1(SumOfScores(table, submissions),
                                          Cardinality(submissions))}} : TRUE :
            submissions \in {Fetched(table, user_id)}} : TRUE

\* The most rows a user's practice of one day has in a table given to the
\* handler, one more than the handler fetches.
MaxSubmissions == 11

\* The most summaries appended in one behaviour.
MaxSummaries == 2

Submission(user_id, created_at, score) ==
    [user_id |-> user_id, problem |-> "p",
     result_summary |-> [is_submission |-> TRUE, score |-> score],
     created_at |-> created_at]

\* Rows the query must pass over: the user's submission of the day before,
\* and a row of the day that is no submission.
OlderRows ==
    <<Submission(1, Yesterday, 10),
      [user_id |-> 1, problem |-> "p",
       result_summary |-> [is_submission |-> FALSE, score |-> 10],
       created_at |-> Today]>>

\* Another user's submission and an earlier summary of the user.
OtherRows == <<Submission(2, Today, 10), SessionSummary(1, Float1(100), 1)>>

\* A table holding count submissions of user 1 today, tens of them scored 10
\* and the rest 0, the tens being the oldest or the most recent ones.
TableOf(count, tens, tens_last, others) ==
    (IF others THEN OlderRows ELSE <<>>)
    \o [i \in 1 .. count |->
           Submission(1, Today,
                      IF (tens_last /\ i > count - tens) \/ (~tens_last /\ i <= tens)
                      THEN 10 ELSE 0)]
    \o (IF others THEN OtherRows ELSE <<>>)

Tables ==
    {TableOf(count, tens, tens_last, others) :
        count \in 0 .. MaxSubmissions, tens \in 0 .. MaxSubmissions,
        tens_last \in BOOLEAN, others \in BOOLEAN}

SubmitSession ==
    /\ Cardinality({i \in DOMAIN code_submissions :
                       code_submissions[i].problem = "SESSION_SUMMARY"}) <= MaxSummaries
    /\ \E user_id \in Users :
        \E handled \in {submit_coding_session(code_submissions, user_id)} :
            /\ code_submissions' = code_submissions \o handled.inserted
            /\ request' = [handler |-> "submit_coding_session", user_id |-> user_id]
            /\ response' = [answered |-> TRUE, status |-> 200, sandbox |-> NoCall,
                            body |-> handled.body]
    /\ UNCHANGED <<portal_vars, code_problems, issued, cmp_vars, practice_vars, exec_vars,
                   thread_vars>>

InitSubmit ==
    /\ code_submissions \in Tables
    /\ code_problems = <<>>
    /\ issued = <<>>
    /\ request = NoCall
    /\ response = NoCall
    /\ CmpIdle /\ ExecIdle /\ PracticeIdle /\ ThreadsIdle
    /\ PortalIdle

SpecSubmit == InitSubmit /\ [][SubmitSession]_vars

Init == CmpIdle /\ ExecIdle /\ PracticeIdle /\ ServerIdle /\ ThreadsIdle /\ PortalIdle

Next == GenerateProblem \/ RunCode \/ SubmitSession

Spec == Init /\ [][Next]_vars

(***************************************************************************)
(* Lines 869-880 of execute_code_no_input run by two invocations at once,  *)
(* each in a thread of the one process.  `with redirect_stdout(a),         *)
(* redirect_stderr(b)` enters a then b and leaves b then a; entering saves *)
(* the current binding of sys.stdout (sys.stderr) and rebinds the name to  *)
(* the invocation's buffer, leaving rebinds it to the saved one.  The      *)
(* entry point's print writes to whatever sys.stdout is bound to at that   *)
(* moment.  A binding is 0 for the process's own stream, t for the buffer  *)
(* of invocation t; a written text is the sequence of its writers.         *)
(***************************************************************************)
Threads == {1, 2}

\* The most writes of one entry point.
MaxWrites == 2

InitThreads ==
    /\ sys = [stdout |-> 0, stderr |-> 0]
    /\ th = [t \in Threads |->
                [pc |-> "enter_stdout", old_stdout |-> 0, old_stderr |-> 0,
                 wrote_stdout |-> 0, wrote_stderr |-> 0,
                 printed_output |-> <<>>, error_output |-> <<>>]]
    /\ capture = [t \in Threads |-> [stdout |-> <<>>, stderr |-> <<>>]]
    /\ process_streams = [stdout |-> <<>>, stderr |-> <<>>]
    /\ CmpIdle /\ ExecIdle /\ PracticeIdle /\ ServerIdle
    /\ PortalIdle

\* redirect_stdout(stdout_capture).__enter__
EnterStdout(t) ==
    /\ th[t].pc = "enter_stdout"
    /\ th' = [th EXCEPT ![t].pc = "enter_stderr", ![t].old_stdout = sys.stdout]
    /\ sys' = [sys EXCEPT !.stdout = t]
    /\ UNCHANGED <<portal_vars, capture, process_streams, cmp_vars, practice_vars, exec_vars, server_vars>>

\* redirect_stderr(stderr_capture).__enter__
EnterStderr(t) ==
    /\ th[t].pc = "enter_stderr"
    /\ th' = [th EXCEPT ![t].pc = "call", ![t].old_stderr = sys.stderr]
    /\ sys' = [sys EXCEPT !.stderr = t]
    /\ UNCHANGED <<portal_vars, capture, process_streams, cmp_vars, practice_vars, exec_vars, server_vars>>

\* The entry point of t prints: the text goes where sys.stdout points now.
WriteStdout(t) ==
    /\ th[t].pc = "call"
    /\ th[t].wrote_stdout + th[t].wrote_stderr < MaxWrites
    /\ th' = [th EXCEPT ![t].wrote_stdout = @ + 1]
    /\ IF sys.stdout = 0
       THEN /\ process_streams' = [process_streams EXCEPT !.stdout = Append(@, t)]
            /\ UNCHANGED capture
       ELSE /\ capture' = [capture EXCEPT ![sys.stdout].stdout = Append(@, t)]
            /\ UNCHANGED process_streams
    /\ UNCHANGED <<portal_vars, sys, cmp_vars, practice_vars, exec_vars, server_vars>>

\* The entry point of t writes diagnostics: they go where sys.stderr points now.
WriteStderr(t) ==
    /\ th[t].pc = "call"
    /\ th[t].wrote_stdout + th[t].wrote_stderr < MaxWrites
    /\ th' = [th EXCEPT ![t].wrote_stderr = @ + 1]
    /\ IF sys.stderr = 0
       THEN /\ process_streams' = [process_streams EXCEPT !.stderr = Append(@, t)]
            /\ UNCHANGED capture
       ELSE /\ capture' = [capture EXCEPT ![sys.stderr].stderr = Append(@, t)]
            /\ UNCHANGED process_streams
    /\ UNCHANGED <<portal_vars, sys, cmp_vars, practice_vars, exec_vars, server_vars>>

\* The entry point of t returns.
ReturnFromEntry(t) ==
    /\ th[t].pc = "call"
    /\ th' = [th EXCEPT ![t].pc = "exit_stderr"]
    /\ UNCHANGED <<portal_vars,
                   sys, capture, process_streams, cmp_vars, practice_vars, exec_vars, server_vars>>

\* redirect_stderr.__exit__
ExitStderr(t) ==
    /\ th[t].pc = "exit_stderr"
    /\ th' = [th EXCEPT ![t].pc = "exit_stdout"]
    /\ sys' = [sys EXCEPT !.stderr = th[t].old_stderr]
    /\ UNCHANGED <<portal_vars, capture, process_streams, cmp_vars, practice_vars, exec_vars, server_vars>>

\* redirect_stdout.__exit__
ExitStdout(t) ==
    /\ th[t].pc = "exit_stdout"
    /\ th' = [th EXCEPT ![t].pc = "getvalue"]
    /\ sys' = [sys EXCEPT !.stdout = th[t].old_stdout]
    /\ UNCHANGED <<portal_vars, capture, process_streams, cmp_vars, practice_vars, exec_vars, server_vars>>

\* printed_output and error_output are read from the invocation's buffers.
GetValue(t) ==
    /\ th[t].pc = "getvalue"
    /\ th' = [th EXCEPT ![t].pc = "done",
                        ![t].printed_output = capture[t].stdout,
                        ![t].error_output = capture[t].stderr]
    /\ UNCHANGED <<portal_vars,
                   sys, capture, process_streams, cmp_vars, practice_vars, exec_vars, server_vars>>

\* The steps of the invocations interleave in any order.
NextThreads ==
    \/ \E t \in Threads : EnterStdout(t)
    \/ \E t \in Threads : EnterStderr(t)
    \/ \E t \in Threads : WriteStdout(t)
    \/ \E t \in Threads : WriteStderr(t)
    \/ \E t \in Threads : ReturnFromEntry(t)
    \/ \E t \in Threads : ExitStderr(t)
    \/ \E t \in Threads : ExitStdout(t)
    \/ \E t \in Threads : GetValue(t)

SpecThreads == InitThreads /\ [][NextThreads]_vars

(***************************************************************************)
(* Properties of compare_answers (SpecCompare).                            *)
(***************************************************************************)
Called == cmp_out # NoCall

\* C1: whenever both normalized strings parse as numbers and are not
\* textually equal, compare_answers returns true exactly when they differ by
\* less than 0.01, and neither the boolean-synonym nor the containment test is
\* consulted; "100" against "10" is false and "42" against "42.0" is true.
C1_NumericBeforeContainment ==
    Called =>
        LET a == Clean(cmp_in.actual)
            e == Clean(cmp_in.expected)
            x == ParseFloat(a)
            y == ParseFloat(e)
        IN  /\ (x.ok /\ y.ok /\ Lower(a) # Lower(e)) =>
                /\ cmp_out.result = (100 * Abs(x.num * y.den - y.num * x.den)
                                        < x.den * y.den)
                /\ cmp_out.by = "numeric"
                /\ cmp_out.consulted \cap {"boolean", "contains"} = {}
            /\ (cmp_in.actual = <<"1", "0", "0">> /\ cmp_in.expected = <<"1", "0">>)
                => cmp_out.result = FALSE
            /\ (cmp_in.actual = <<"4", "2">> /\ cmp_in.expected = <<"4", "2", ".", "0">>)
                => cmp_out.result = TRUE

\* "100" has been compared with "10", which it contains, and did not match.
C1_Witness ==
    /\ Called
    /\ cmp_in.actual = <<"1", "0", "0">>
    /\ cmp_in.expected = <<"1", "0">>
    /\ Contains(cmp_in.expected, cmp_in.actual)
    /\ cmp_out.result = FALSE

(***************************************************************************)
(* Properties of execute_code_no_input (SpecSandbox).                      *)
(***************************************************************************)
Executed == exec_out # NoCall

\* The submission holds a definition of a function with no parameters.
DefinesZeroParameterFunction(code) == \E i \in DOMAIN code : code[i].k = "def0"

ResultFields == {"success", "output", "error", "passed", "expected", "actual"}

\* C2: for every python submission that contains no zero-parameter function
\* definition the call returns success=false and passed=false with an error,
\* and nothing of the submission is executed: no top-level statement is
\* evaluated and no function is invoked.
C2_NoEntryPointNothingRuns ==
    (/\ Executed
     /\ exec_in.language = "python"
     /\ ~DefinesZeroParameterFunction(exec_in.code)) =>
        /\ exec_out.returned
        /\ exec_out.result.success = FALSE
        /\ exec_out.result.passed = FALSE
        /\ exec_out.result.error # PyNone
        /\ exec_out.statements = 0
        /\ exec_out.invocations = 0

\* The entry point was called, returned normally, and wrote `text` to stderr.
ReturnedWithDiagnostics ==
    /\ Executed
    /\ exec_out.call # NoCall
    /\ exec_out.call.raised = NoExc
    /\ Strip(exec_out.call.err) # <<>>

\* C3 (as amended): if the entry point returns normally after writing
\* diagnostic text that is not only whitespace, the result has success=false,
\* passed=false and error equal to that text trimmed, whatever value was
\* returned, and the comparator is not run.
C3_DiagnosticsFailTheRun ==
    ReturnedWithDiagnostics =>
        /\ exec_out.returned
        /\ exec_out.result.success = FALSE
        /\ exec_out.result.passed = FALSE
        /\ exec_out.result.error = PyStr(Strip(exec_out.call.err))
        /\ ~exec_out.compared

\* The entry point wrote "w" to stderr and returned 42, the expected answer.
C3_Witness ==
    /\ ReturnedWithDiagnostics
    /\ exec_out.call.err = <<"w", "\n">>
    /\ exec_out.call.value = PyInt(42)
    /\ exec_in.expected_answer = <<"4", "2">>
    /\ exec_out.result.error = PyStr(<<"w">>)
    /\ exec_out.result.passed = FALSE

\* C3 as stated: any text at all on stderr during the invocation fails the
\* run with that text (trimmed) as the error.
C3_AnyDiagnosticsFailTheRun ==
    (Executed /\ exec_out.call # NoCall /\ exec_out.call.err # <<>>) =>
        /\ exec_out.returned
        /\ exec_out.result.success = FALSE
        /\ exec_out.result.passed = FALSE
        /\ exec_out.result.error = PyStr(Strip(exec_out.call.err))
        /\ ~exec_out.compared

\* C4: any exception raised while the entry point is invoked is caught: the
\* call returns success=false, passed=false, a runtime error with the
\* exception's message, and as output the (trimmed) text printed before the
\* fault; the exception does not reach the caller.
C4_InvocationFaultsCaught ==
    (Executed /\ exec_out.call # NoCall /\ exec_out.call.raised # NoExc) =>
        /\ exec_out.returned
        /\ exec_out.propagated = NoExc
        /\ exec_out.result.success = FALSE
        /\ exec_out.result.passed = FALSE
        /\ exec_out.result.error
              = PyStr(<<"Runtime error: ">> \o exec_out.call.raised.msg)
        /\ exec_out.result.output = Strip(exec_out.call.out)

\* The entry point was called, returned normally and wrote no diagnostics.
CleanRun ==
    /\ Executed
    /\ exec_out.call # NoCall
    /\ exec_out.call.raised = NoExc
    /\ Strip(exec_out.call.err) = <<>>

\* C5: on a run with no fault and no diagnostic text the actual output that
\* is compared with the expected answer is the rendering of the return value
\* whenever one is present (42 gives "42", the empty string gives ""), and
\* the captured printed text only when the return value is None.
C5_ReturnValueBeforePrintedText ==
    CleanRun =>
        LET value == exec_out.call.value
            printed == Strip(exec_out.call.out)
            r == exec_out.result
        IN  /\ exec_out.returned /\ exec_out.compared
            /\ r.success /\ r.error = PyNone
            /\ r.output = r.actual
            /\ value = PyNone => r.actual = printed
            /\ value = PyInt(42) => r.actual = <<"4", "2">>
            /\ value = PyInt(0) => r.actual = <<"0">>
            /\ value = PyStr(<<>>) => r.actual = <<>>
            /\ r.passed = compare_answers(r.actual, exec_in.expected_answer)

\* The entry point printed "p" and returned the empty string while "p" was
\* expected: the return value is the actual output, and the run fails.
C5_Witness ==
    /\ CleanRun
    /\ exec_out.call.out = <<"p", "\n">>
    /\ exec_out.call.value = PyStr(<<>>)
    /\ exec_in.expected_answer = <<"p">>
    /\ exec_out.result.actual = <<>>
    /\ exec_out.result.passed = FALSE

\* C6: for every input the call returns a result with all six fields,
\* expected being the expected answer it was given; nothing is raised to the
\* caller.
C6_AlwaysAFullResult ==
    Executed =>
        /\ exec_out.returned
        /\ exec_out.propagated = NoExc
        /\ DOMAIN exec_out.result = ResultFields
        /\ exec_out.result.expected = exec_in.expected_answer

\* The message of an unexecuted language, spelled out.
LanguageError(language) ==
    IF language = "javascript" THEN <<"JavaScript execution not implemented yet">>
    ELSE IF language = "java" THEN <<"Java execution not implemented yet">>
    ELSE <<"Unsupported language: ", language>>

\* C7 (as amended): for every language other than python the call returns
\* success=false, passed=false, empty output and actual, and an error fixed
\* by the language alone ("JavaScript/Java execution not implemented yet",
\* or "Unsupported language: <language>"); the code is never executed.
C7_OtherLanguagesNotExecuted ==
    (Executed /\ exec_in.language # "python") =>
        /\ exec_out.returned
        /\ exec_out.result = [success |-> FALSE, output |-> <<>>,
                              error |-> PyStr(LanguageError(exec_in.language)),
                              passed |-> FALSE,
                              expected |-> exec_in.expected_answer,
                              actual |-> <<>>]
        /\ exec_out.statements = 0
        /\ exec_out.invocations = 0
        /\ ~exec_out.compared

\* A java submission with a correct entry point was answered without a run.
C7_Witness ==
    /\ Executed
    /\ exec_in.language = "java"
    /\ DefinesZeroParameterFunction(exec_in.code)
    /\ exec_out.result.error = PyStr(<<"Java execution not implemented yet">>)
    /\ exec_out.invocations = 0

\* C7 as stated: every language other than python gets the same fixed
\* result, whichever language it is.
C7_SameResultForEveryOtherLanguage ==
    (Executed /\ exec_in.language # "python") =>
        \A other \in Languages \ {"python"} :
            exec_out.result
                = execute_code_no_input(exec_in.code, exec_in.expected_answer,
                                        other).result

(***************************************************************************)
(* Properties of run_code (Spec).                                          *)
(***************************************************************************)
RunCodeAnswered == request # NoCall /\ request.handler = "run_code"

\* C8: when run_code is called with a problem_id the store holds no problem
\* for, the request fails with status 404 and detail "Problem not found",
\* and the submitted code is never executed.
C8_MissingProblemIs404 ==
    (RunCodeAnswered /\ request.problem_id \notin DOMAIN code_problems) =>
        /\ response.answered
        /\ response.status = 404
        /\ response.detail = <<"Problem not found">>
        /\ response.sandbox = NoCall

\* C9: every response of run_code has score 0 or 10, 10 exactly when passed
\* is true and 0 exactly when passed is false.
C9_ScoreIsBinary ==
    (RunCodeAnswered /\ response.answered /\ response.status = 200) =>
        /\ response.body.score \in {0, 10}
        /\ response.body.score = 10 <=> response.body.passed = TRUE
        /\ response.body.score = 0 <=> response.body.passed = FALSE
        /\ response.body.passed = response.sandbox.result.passed

\* A submission that ran to completion but gave the wrong answer scored 0.
C9_Witness ==
    /\ RunCodeAnswered
    /\ response.answered
    /\ response.status = 200
    /\ response.body.success = TRUE
    /\ response.body.passed = FALSE
    /\ response.body.score = 0

(***************************************************************************)
(* Properties of overlapping invocations (SpecThreads).                    *)
(***************************************************************************)
\* The text t's entry point wrote n times.
OwnText(t, n) == [i \in 1 .. n |-> t]

\* C10: when two invocations overlap, each one's captured standard output
\* and diagnostic text is exactly the text its own entry point emitted, and
\* none of it reaches the process-wide streams.
C10_CaptureIsPerCall ==
    /\ process_streams = [stdout |-> <<>>, stderr |-> <<>>]
    /\ \A t \in DOMAIN th :
          th[t].pc = "done" =>
              /\ th[t].printed_output = OwnText(t, th[t].wrote_stdout)
              /\ th[t].error_output = OwnText(t, th[t].wrote_stderr)

(***************************************************************************)
(* One process running submissions one after another (lines 792-961 called *)
(* again and again).  What a call can leave behind is what its statements  *)
(* reach: safe_globals is built anew by every call, the module main is     *)
(* the process's.                                                          *)
(***************************************************************************)
\* The most sandbox runs of one process.
MaxRuns == 3

\* What a rebind statement binds compare_answers to.
Rebindings == {"lambda: True", "lambda: False"}

ReturnsFortyTwo ==
    [k |-> "def0", name |-> "solution",
     body |-> [out |-> <<>>, err |-> <<>>, raised |-> NoExc, value |-> PyInt(42)]]

PrintsP ==
    [k |-> "def0", name |-> "solution",
     body |-> [out |-> <<"p", "\n">>, err |-> <<>>, raised |-> NoExc, value |-> PyNone]]

SessionPrograms ==
    {<<ReturnsFortyTwo>>, <<PrintsP>>}
    \cup {<<ReturnsFortyTwo, [k |-> "rebind", to |-> to]>> : to \in Rebindings}

\* A submission whose statements touch nothing outside its own globals.
Pure(code) == \A i \in DOMAIN code : code[i].k # "rebind"

InitSession ==
    /\ main_module = MainModule
    /\ sandbox_log = <<>>
    /\ CmpIdle /\ ExecIdle /\ ValIdle /\ GenIdle /\ ServerIdle /\ ThreadsIdle
    /\ PortalIdle

RunSubmission ==
    /\ Len(sandbox_log) < MaxRuns
    /\ \E code \in SessionPrograms, expected_answer \in ExpectedAnswers :
        /\ sandbox_log' =
              Append(sandbox_log,
                     [code |-> code, expected_answer |-> expected_answer,
                      run |-> execute_code_no_input_in(main_module, code,
                                                       expected_answer, "python")])
        /\ main_module' = ModuleAfter(main_module, code, "python")
    /\ UNCHANGED <<portal_vars, cmp_vars, exec_vars, val_vars, gen_vars, server_vars, thread_vars>>

SpecSession == InitSession /\ [][RunSubmission]_vars

(***************************************************************************)
(* Registration: register, verify_otp and resend_otp over the dict         *)
(* otp_storage and the users table.  Each operator gives the dict and the  *)
(* table as the handler leaves them, and its answer.  The clock counts     *)
(* ticks of five minutes; handlers run one at a time (they are coroutines  *)
(* that never await).                                                      *)
(***************************************************************************)
\* timedelta(minutes=10), in ticks
OtpLifetime == 2

\* The last tick of the clock.
MaxTime == 4

Emails == {"ann@x.io", "bob@x.io"}

\* What generate_otp can draw, as far as two draws can differ.
Otps == {"100000", "999999"}

Registrants ==
    {[username |-> "ann", email |-> "ann@x.io"],
     [username |-> "bob", email |-> "bob@x.io"]}

Answer(status, detail) == [answered |-> TRUE, status |-> status, detail |-> detail]

Handled(storage, table, answer) ==
    [otp_storage |-> storage, users |-> table, response |-> answer]

\* del d[key]
DelItem(d, key) == [k \in DOMAIN d \ {key} |-> d[k]]

\* cursor.fetchone() of SELECT * FROM users WHERE email = %s
FetchUser(table, email) ==
    IF \E i \in DOMAIN table : table[i].email = email
    THEN table[CHOOSE i \in DOMAIN table :
                  /\ table[i].email = email
                  /\ \A j \in 1 .. (i - 1) : table[j].email # email]
    ELSE PyNone

\* register, lines 142-186.  otp is what generate_otp drew; db_up is whether
\* the SELECT went through (its exception becomes a 500).
register(storage, table, clock, user, otp, db_up) ==
    IF ~db_up
    THEN Handled(storage, table, Answer(500, <<"database error">>))
    ELSE LET existing == FetchUser(table, user.email)
         IN  IF existing # PyNone /\ existing.verified
             THEN Handled(storage, table, Answer(400, <<"Email already registered">>))
             ELSE Handled(SetItem(storage, user.email,
                                  [otp |-> otp, expires |-> clock + OtpLifetime,
                                   user_data |-> user]),
                          table, Answer(200, <<"OTP sent to your email. Please verify to complete registration.">>))

\* verify_otp with the comparison of the OTP dropped.
verify_otp_any_code(storage, table, clock, email, otp, inserted) ==
    IF email \notin DOMAIN storage
    THEN Handled(storage, table, Answer(400, <<"No OTP found. Please register again.">>))
    ELSE LET stored_data == storage[email]
         IN  IF clock > stored_data.expires
             THEN Handled(DelItem(storage, email), table,
                          Answer(400, <<"OTP expired. Please register again.">>))
             ELSE IF ~inserted
             THEN Handled(storage, table, Answer(500, <<"Failed to create user account">>))
             ELSE Handled(DelItem(storage, email),
                          Append(table, [username |-> stored_data.user_data.username,
                                         email |-> stored_data.user_data.email,
                                         verified |-> TRUE]),
                          Answer(200, <<"Email verified successfully! You can now login.">>))

\* verify_otp, lines 191-239.  inserted is whether the INSERT and its commit
\* went through; when they raise, the handler rolls back and answers 500.
verify_otp(storage, table, clock, email, otp, inserted) ==
    IF email \notin DOMAIN storage
    THEN Handled(storage, table, Answer(400, <<"No OTP found. Please register again.">>))
    ELSE LET stored_data == storage[email]
         IN  IF clock > stored_data.expires
             THEN Handled(DelItem(storage, email), table,
                          Answer(400, <<"OTP expired. Please register again.">>))
             ELSE IF otp # stored_data.otp
             THEN Handled(storage, table, Answer(400, <<"Invalid OTP. Please try again.">>))
             ELSE IF ~inserted
             THEN Handled(storage, table, Answer(500, <<"Failed to create user account">>))
             ELSE Handled(DelItem(storage, email),
                          Append(table, [username |-> stored_data.user_data.username,
                                         email |-> stored_data.user_data.email,
                                         verified |-> TRUE]),
                          Answer(200, <<"Email verified successfully! You can now login.">>))

\* resend_otp, lines 242-259
resend_otp(storage, table, clock, email, otp) ==
    IF email \notin DOMAIN storage
    THEN Handled(storage, table, Answer(400, <<"No pending registration found">>))
    ELSE Handled([storage EXCEPT ![email].otp = otp,
                                 ![email].expires = clock + OtpLifetime],
                 table, Answer(200, <<"OTP resent successfully">>))

\* The pending registrations whose expiry the clock has passed.
Expired(storage, clock) == {email \in DOMAIN storage : clock > storage[email].expires}

InitAuth ==
    /\ CmpIdle /\ ExecIdle /\ PracticeIdle /\ ServerIdle /\ ThreadsIdle
    /\ PortalIdle

auth_frame ==
    <<interview_sessions, interview_rows, code_problems, code_submissions, issued,
      cmp_vars, practice_vars, exec_vars, thread_vars>>

Register ==
    \E user \in Registrants, otp \in Otps, db_up \in BOOLEAN :
        LET handled == register(otp_storage, users, now, user, otp, db_up)
        IN  /\ request' = [op |-> "register", email |-> user.email, otp |-> otp]
            /\ response' = handled.response
            /\ otp_storage' = handled.otp_storage
            /\ users' = handled.users
            /\ lapsed' = IF handled.response.status = 200
                         THEN lapsed \ {user.email} ELSE lapsed
            /\ UNCHANGED <<now, auth_frame>>

VerifyOtp ==
    \E email \in Emails, otp \in Otps, inserted \in BOOLEAN :
        LET handled == verify_otp(otp_storage, users, now, email, otp, inserted)
        IN  /\ request' = [op |-> "verify_otp", email |-> email, otp |-> otp]
            /\ response' = handled.response
            /\ otp_storage' = handled.otp_storage
            /\ users' = handled.users
            /\ UNCHANGED <<now, lapsed, auth_frame>>

ResendOtp ==
    \E email \in Emails, otp \in Otps :
        LET handled == resend_otp(otp_storage, users, now, email, otp)
        IN  /\ request' = [op |-> "resend_otp", email |-> email, otp |-> otp]
            /\ response' = handled.response
            /\ otp_storage' = handled.otp_storage
            /\ users' = handled.users
            /\ UNCHANGED <<now, lapsed, auth_frame>>

\* Five minutes pass.
Tick ==
    /\ now < MaxTime
    /\ now' = now + 1
    /\ lapsed' = lapsed \cup Expired(otp_storage, now + 1)
    /\ UNCHANGED <<otp_storage, users, request, response, auth_frame>>

NextAuth == Register \/ VerifyOtp \/ ResendOtp \/ Tick

SpecAuth == InitAuth /\ [][NextAuth]_vars

(***************************************************************************)
(* Interviews: start_interview, send_interview_message and end_interview   *)
(* over the dict interview_sessions and the interview_sessions table.      *)
(* Here a tick of the clock is one second, the grain of the session id.    *)
(* An exception that leaves a handler is answered 500 by the framework;    *)
(* the answer of the last handler is kept in response.  No more sessions   *)
(* are open at a time than there are users.                                *)
(***************************************************************************)
\* The most entries of a session's history.
MaxHistory == 3

\* The longest interview clock: the ticks in which interviews are started.
MaxSecond == 1

\* cv_skills as a request or a stored CV analysis gives them: a list of
\* Python values, strings when the analysis is well formed.
SkillLists ==
    {<<>>,
     <<PyStr(<<"Go">>)>>,
     <<PyStr(<<"Go">>), PyStr(<<"C">>), PyStr(<<"SQL">>), PyInt(7)>>}

\* The row fetched from cv_analyses: none, or its analysis_json as
\* json.loads reads it: a dict with or without "skills", or no JSON at all.
CvRows ==
    {PyNone}
    \cup {[analysis_json |-> PyDict([skills |-> skills])] : skills \in SkillLists \ {<<>>}}
    \cup {[analysis_json |-> PyDict([summary |-> PyStr(<<"s">>)])],
          [analysis_json |-> PyStr(<<"not json">>)]}

Messages == {<<"I build compilers.">>}

\* What the provider answers to the prompt of a question, as pieces of
\* text; failed when the call raised.
ProviderQuestions ==
    {[failed |-> TRUE, pieces |-> <<>>],
     [failed |-> FALSE, pieces |-> <<" ", "Question:", " ", "\"", "Why Go?", "\"", "\n">>]}

JoinError == Exc("Exception", <<"sequence item 3: expected str instance, int found">>)

\* values[:n]
FirstOf(values, n) == SubSeq(values, 1, IF Len(values) < n THEN Len(values) ELSE n)

RECURSIVE JoinTexts(_)
JoinTexts(values) ==
    IF values = <<>> THEN <<>>
    ELSE IF Len(values) = 1 THEN Head(values).s
    ELSE Head(values).s \o <<", ">> \o JoinTexts(Tail(values))

\* ', '.join(values): a TypeError when an item is not a str
Join(values) ==
    IF \E i \in DOMAIN values : values[i].t # "str"
    THEN [raised |-> JoinError, text |-> <<>>]
    ELSE [raised |-> NoExc, text |-> JoinTexts(values)]

\* f"session_{current_user['user_id']}_{int(datetime.now().timestamp())}"
SessionId(user_id, clock) ==
    <<"session_">> \o NatToText(user_id) \o <<"_">> \o NatToText(clock)

\* Seconds cut off the session id: every session of a user gets one id.
SessionId_per_user(user_id, clock) ==
    <<"session_">> \o NatToText(user_id)

Entry(role, content, clock) == [role |-> role, content |-> content, timestamp |-> clock]

\* Lines 1217-1224: the skills of the request, or of the stored CV when the
\* request names none and the analysis can be read.
ResolvedSkills(request_skills, cv_data) ==
    IF request_skills = <<>> /\ cv_data # PyNone
    THEN IF cv_data.analysis_json.t = "dict"
         THEN IF "skills" \in DOMAIN cv_data.analysis_json.d
              THEN cv_data.analysis_json.d.skills
              ELSE <<>>
         ELSE request_skills
    ELSE request_skills

Served(sessions, rows, answer) ==
    [interview_sessions |-> sessions, interview_rows |-> rows, response |-> answer]

ServerError == Answer(500, <<"Internal Server Error">>)

\* start_interview, lines 1197-1260.  db_up is whether the SELECT went
\* through.
start_interview(sessions, rows, clock, user_id, ask, cv_data, db_up) ==
    IF ~db_up THEN Served(sessions, rows, ServerError)
    ELSE LET cv_skills == ResolvedSkills(ask.cv_skills, cv_data)
             session_id == SessionId(user_id, clock)
             named == Join(FirstOf(cv_skills, 3))
             greeting ==
                 IF cv_skills # <<>>
                 THEN <<"Hello! I've reviewed your CV and I'm impressed by your experience with ">>
                      \o named.text
                      \o <<". Let's start - tell me about yourself and what excites you most about your work.">>
                 ELSE <<"Hello! I'm your AI interviewer. Let's begin - tell me about yourself and what interests you in your career.">>
         IN  IF cv_skills # <<>> /\ named.raised # NoExc
             THEN Served(sessions, rows, ServerError)
             ELSE Served(SetItem(sessions, session_id,
                                 [user_id |-> user_id, topic |-> ask.topic,
                                  stage |-> "intro", cv_skills |-> cv_skills,
                                  history |-> <<Entry("assistant", greeting, clock)>>,
                                  created_at |-> clock]),
                         rows, Answer(200, session_id))

FallbackQuestions ==
    <<<<"Tell me more about your background.">>,
      <<"What's your experience with the skills on your CV?">>,
      <<"Describe a challenging project you worked on.">>,
      <<"How do you handle difficult technical problems?">>,
      <<"What are your career goals?">>,
      <<"Can you elaborate on that?">>>>

\* generate_interview_question of ai.py, lines 145-219: the question, or
\* the exception of the join at line 167, which no handler catches.
generate_interview_question(conversation_history, cv_skills, provider) ==
    LET question_count ==
            Cardinality({i \in DOMAIN conversation_history :
                            conversation_history[i].role = "assistant"})
        cleaned ==
            Strip(SelectSeq(Strip(provider.pieces),
                            LAMBDA piece : piece \notin {"\"", "Question:"}))
    IN  IF cv_skills # <<>> /\ Join(FirstOf(cv_skills, 5)).raised # NoExc
        THEN [raised |-> Join(FirstOf(cv_skills, 5)).raised, question |-> <<>>]
        ELSE IF ~provider.failed
        THEN [raised |-> NoExc, question |-> cleaned]
        ELSE [raised |-> NoExc,
              question |-> FallbackQuestions[IF question_count < 5
                                             THEN question_count + 1 ELSE 6]]

\* send_interview_message without the check of the session's owner.
send_interview_message_open(sessions, rows, clock, user_id, ask, provider) ==
    IF ask.session_id \notin DOMAIN sessions
    THEN Served(sessions, rows, Answer(404, <<"Session not found">>))
    ELSE LET session == sessions[ask.session_id]
             heard == Append(session.history, Entry("user", ask.message, clock))
             asked == generate_interview_question(heard, session.cv_skills, provider)
         IN  IF asked.raised # NoExc
             THEN Served([sessions EXCEPT ![ask.session_id].history = heard],
                         rows, ServerError)
             ELSE Served([sessions EXCEPT ![ask.session_id].history =
                             Append(heard, Entry("assistant", asked.question, clock))],
                         rows, Answer(200, asked.question))

\* send_interview_message, lines 1263-1302.  The user's entry is appended
\* to the session's own list before the question is generated.
send_interview_message(sessions, rows, clock, user_id, ask, provider) ==
    IF ask.session_id \notin DOMAIN sessions
    THEN Served(sessions, rows, Answer(404, <<"Session not found">>))
    ELSE LET session == sessions[ask.session_id]
             heard == Append(session.history, Entry("user", ask.message, clock))
             asked == generate_interview_question(heard, session.cv_skills, provider)
         IN  IF session.user_id # user_id
             THEN Served(sessions, rows, Answer(403, <<"Not authorized">>))
             ELSE IF asked.raised # NoExc
             THEN Served([sessions EXCEPT ![ask.session_id].history = heard],
                         rows, ServerError)
             ELSE Served([sessions EXCEPT ![ask.session_id].history =
                             Append(heard, Entry("assistant", asked.question, clock))],
                         rows, Answer(200, asked.question))

\* rate_interview of ai.py, lines 222-297, as far as end_interview stores
\* it: the score.  rated is the score the provider's JSON named, PyNone when
\* the call or its parsing raised.
rate_interview(conversation_history, rated) ==
    LET user_responses ==
            {i \in DOMAIN conversation_history : conversation_history[i].role = "user"}
    IN  IF Cardinality(user_responses) < 3
        THEN [score |-> PyNone, incomplete |-> TRUE]
        ELSE IF rated # PyNone
        THEN [score |-> rated, incomplete |-> FALSE]
        ELSE [score |-> Float1(65), incomplete |-> FALSE]

\* end_interview, lines 1305-1367.  inserted is whether the INSERT and its
\* commit went through; their exception leaves the handler before line 1362.
\* Of the metadata column, the dumped history, the row keeps the number of
\* entries.
end_interview(sessions, rows, session_id, user_id, rated, inserted) ==
    IF session_id \notin DOMAIN sessions
    THEN Served(sessions, rows, Answer(404, <<"Session not found">>))
    ELSE LET session == sessions[session_id]
             rating == rate_interview(session.history, rated)
         IN  IF session.user_id # user_id
             THEN Served(sessions, rows, Answer(403, <<"Not authorized">>))
             ELSE IF ~inserted
             THEN Served(sessions, rows, ServerError)
             ELSE Served(DelItem(sessions, session_id),
                         Append(rows, [id |-> session_id, user_id |-> session.user_id,
                                       topic |-> session.topic,
                                       started_at |-> session.created_at,
                                       entries |-> Len(session.history),
                                       score |-> rating.score]),
                         Answer(200, <<"Interview ended">>))

\* The session ids a request may name: those of the open sessions, and one
\* of no session.
SessionIds == DOMAIN interview_sessions \cup {<<"session_9_9">>}

\* The skills a request names, with the CV stored for its user: any stored
\* CV when the request names none.
StartInputs ==
    [cv_skills : {<<>>}, cv_data : CvRows]
    \cup [cv_skills : {<<PyStr(<<"Go">>)>>}, cv_data : {PyNone}]

InitInterview ==
    /\ CmpIdle /\ ExecIdle /\ PracticeIdle /\ ServerIdle /\ ThreadsIdle
    /\ PortalIdle

interview_frame ==
    <<request, now, otp_storage, users, lapsed, code_problems, code_submissions, issued,
      cmp_vars, practice_vars, exec_vars, thread_vars>>

StartInterview ==
    \E user_id \in Users, given \in StartInputs, db_up \in BOOLEAN :
        LET ask == [topic |-> <<"Software Development">>, cv_skills |-> given.cv_skills]
            served == start_interview(interview_sessions, interview_rows, now,
                                      user_id, ask, given.cv_data, db_up)
        IN  /\ \/ Cardinality(DOMAIN interview_sessions) < Cardinality(Users)
               \/ SessionId(user_id, now) \in DOMAIN interview_sessions
            /\ response' = served.response
            /\ interview_sessions' = served.interview_sessions
            /\ interview_rows' = served.interview_rows
            /\ UNCHANGED interview_frame

SendInterviewMessage ==
    \E user_id \in Users, session_id \in SessionIds, message \in Messages,
       provider \in ProviderQuestions :
        LET ask == [session_id |-> session_id, message |-> message]
            served == send_interview_message(interview_sessions, interview_rows,
                                             now, user_id, ask, provider)
        IN  /\ session_id \in DOMAIN interview_sessions =>
                  Len(interview_sessions[session_id].history) + 2 <= MaxHistory
            /\ response' = served.response
            /\ interview_sessions' = served.interview_sessions
            /\ interview_rows' = served.interview_rows
            /\ UNCHANGED interview_frame

EndInterview ==
    \E user_id \in Users, session_id \in SessionIds, inserted \in BOOLEAN :
        LET served == end_interview(interview_sessions, interview_rows,
                                    session_id, user_id, PyNone, inserted)
        IN  /\ interview_rows = <<>>
            /\ response' = served.response
            /\ interview_sessions' = served.interview_sessions
            /\ interview_rows' = served.interview_rows
            /\ UNCHANGED interview_frame

\* A second passes while interviews are held.
Second ==
    /\ now < MaxSecond
    /\ now' = now + 1
    /\ UNCHANGED <<otp_storage, users, lapsed, request, response, auth_frame>>

NextInterview == StartInterview \/ SendInterviewMessage \/ EndInterview \/ Second

SpecInterview == InitInterview /\ [][NextInterview]_vars

(***************************************************************************)
(* Properties of the sandbox across calls (SpecSession).                   *)
(***************************************************************************)
\* C11: the sandbox keeps no state between calls: two runs of the same pure
\* submission against the same expected answer, whatever was run in between,
\* have the same actual output and the same passed verdict.
C11_SameSubmissionSameVerdict ==
    \A i, j \in DOMAIN sandbox_log :
        (/\ Pure(sandbox_log[i].code)
         /\ sandbox_log[i].code = sandbox_log[j].code
         /\ sandbox_log[i].expected_answer = sandbox_log[j].expected_answer
         /\ sandbox_log[i].run.returned
         /\ sandbox_log[j].run.returned)
        => /\ sandbox_log[i].run.result.actual = sandbox_log[j].run.result.actual
           /\ sandbox_log[i].run.result.passed = sandbox_log[j].run.result.passed

(***************************************************************************)
(* Properties of generate_coding_problem_no_input (SpecGenerate).          *)
(***************************************************************************)
Generated == gen_out # NoCall

\* The provider is unconfigured or unavailable, or a call to it raises.
ProviderFails(provider) ==
    \/ ~provider.GROQ_AVAILABLE
    \/ ~provider.GROQ_API_KEY
    \/ provider.client = "raises"
    \/ provider.completion = "raises"

CatalogProblem(problem) ==
    \E i \in DOMAIN fallback_problems :
        problem = SetItem(fallback_problems[i], "ai_generated", PyBool(FALSE))

ParsedFromReply(provider) ==
    /\ ~ProviderFails(provider)
    /\ provider.content.t = "str"
    /\ JsonLoads(StripPieces(Unfenced(StripPieces(provider.content.s)))).raised = NoExc

\* C12: whenever the provider is unconfigured, unavailable or raises, the
\* generator returns without raising a problem of the fallback catalog, with
\* title, description, expected_answer and starter code present and
\* ai_generated false; ai_generated is true only for a problem parsed from a
\* provider reply.
C12_FallbackWhenProviderFails ==
    Generated =>
        /\ ProviderFails(gen_in) =>
              /\ gen_out.raised = NoExc
              /\ CatalogProblem(gen_out.problem)
              /\ {"title", "description", "expected_answer", "starter_code_python",
                  "starter_code_javascript", "starter_code_java"}
                     \subseteq DOMAIN gen_out.problem
        /\ (gen_out.raised = NoExc /\ gen_out.problem["ai_generated"] = PyBool(TRUE))
              => ParsedFromReply(gen_in)

(***************************************************************************)
(* Properties of generate_problem (Spec).                                  *)
(***************************************************************************)
GenerateProblemAnswered == request # NoCall /\ request.handler = "generate_problem"

\* The provider answered, and its reply is not the JSON text of a problem:
\* it does not parse, or parses to something lacking a required field.
MalformedReply(provider) ==
    /\ ~ProviderFails(provider)
    /\ provider.content.t = "str"
    /\ LET loaded == JsonLoads(StripPieces(Unfenced(StripPieces(provider.content.s))))
       IN  \/ loaded.raised # NoExc
           \/ loaded.value.t # "dict"
           \/ ~(RequiredKeys \subseteq DOMAIN loaded.value.d)

\* The body is that of a catalog problem.
CatalogBody(body) ==
    \E i \in DOMAIN fallback_problems :
        /\ body.title = fallback_problems[i].title
        /\ body.description = fallback_problems[i].description
        /\ body.expected_answer = fallback_problems[i].expected_answer
        /\ body.ai_generated = PyBool(FALSE)

\* C13: a malformed provider reply (text that does not parse, or that parses
\* to data lacking title, description or expected_answer) always degrades to
\* a problem of the fallback catalog and is never answered as an error by
\* generate_problem.
C13_MalformedReplyDegrades ==
    (GenerateProblemAnswered /\ MalformedReply(request.provider)) =>
        /\ response.answered
        /\ response.status = 200
        /\ CatalogBody(response.body)

(***************************************************************************)
(* Properties of validate_and_fix_problem (SpecValidate).  The reference   *)
(* answers are computed from the numbers the description was written       *)
(* from, not from what the validator read in it.                           *)
(***************************************************************************)
ValidatorReturned == val_out # NoCall

RECURSIVE SumOfSeq(_)
SumOfSeq(numbers) ==
    IF numbers = <<>> THEN 0 ELSE Head(numbers) + SumOfSeq(Tail(numbers))

\* The answer, a text or a number, is within 0.01 of total / count.
WithinHundredthOfMean(answer, total, count) ==
    LET value == FloatOf(answer)
    IN  /\ value.ok
        /\ 100 * Abs(value.num * count - total * value.den) <= value.den * count

\* C14: for every problem whose description mentions an average or mean and
\* holds a bracketed numeric list, after validate_and_fix_problem the
\* expected_answer is within 0.01 of the mean of that list, whatever answer
\* the provider claimed.
C14_AverageWithinTolerance ==
    (/\ ValidatorReturned
     /\ val_in.shape.kind = "average"
     /\ val_in.shape.numbers # <<>>) =>
        /\ val_out.raised = NoExc
        /\ WithinHundredthOfMean(val_out.problem_data["expected_answer"],
                                 SumOfSeq(val_in.shape.numbers),
                                 Len(val_in.shape.numbers))

\* n is prime: at least 2 and divisible by nothing between 1 and itself.
Prime(n) == n >= 2 /\ \A d \in 2 .. (n - 1) : n % d # 0

\* The integers of from .. to that the filter word keeps.
Filtered(filter, from, to) ==
    {n \in from .. to :
        CASE filter = T.even -> n % 2 = 0
          [] filter = T.odd -> n % 2 = 1
          [] filter = T.prime -> Prime(n)
          [] OTHER -> TRUE}

\* C15: for every description of the range-sum shape, phrased "sum ...
\* between X and Y" or "sum ... from X to Y", validate_and_fix_problem leaves
\* expected_answer equal to the sum over the inclusive range [X, Y] of all
\* integers, or of the even, odd or prime ones when the description names
\* that filter.
C15_RangeSumRecomputed ==
    (ValidatorReturned /\ val_in.shape.kind = "sum") =>
        /\ val_out.raised = NoExc
        /\ val_out.problem_data["expected_answer"] =
              PyStr(Str(PyInt(SumOfSet(Filtered(val_in.shape.filter,
                                                val_in.shape.start,
                                                val_in.shape.end)))))

\* The second largest of the distinct values, the largest when there is
\* only one.
SecondLargest(values) ==
    IF Cardinality(values) < 2 THEN SetMax(values)
    ELSE CHOOSE n \in values : Cardinality({m \in values : m > n}) = 1

\* What the description's word asks of the list.
Extremum(word, numbers) ==
    LET values == {numbers[i] : i \in DOMAIN numbers}
    IN  IF word = T_second_largest THEN SecondLargest(values)
        ELSE IF word \in {T.largest, T.maximum}
        THEN CHOOSE n \in values : \A m \in values : m <= n
        ELSE CHOOSE n \in values : \A m \in values : n <= m

\* C16: for every description of the list-extremum shape with a bracketed
\* integer list, validate_and_fix_problem leaves expected_answer equal to
\* the maximum for "largest"/"maximum", the minimum for
\* "smallest"/"minimum", and for "second largest" the second largest of the
\* distinct values (the largest when there are fewer than two).
C16_ExtremumRecomputed ==
    (ValidatorReturned /\ val_in.shape.kind = "extremum") =>
        /\ val_out.raised = NoExc
        /\ val_out.problem_data["expected_answer"] =
              PyStr(Str(PyInt(Extremum(val_in.shape.word, val_in.shape.numbers))))

\* The problem handed to the validator.
Submitted == ProblemOf(val_in.shape, val_in.claimed)

\* Two numbers, as texts or JSON numbers, no more than 0.01 apart.
WithinHundredth(claimed, correct) ==
    LET a == FloatOf(claimed)
        b == FloatOf(correct)
    IN  /\ a.ok /\ b.ok
        /\ 100 * Abs(a.num * b.den - b.num * a.den) <= a.den * b.den

\* The claimed answer is the recomputed one as lines 412, 443 and 472
\* compare them: numerically for an average, as the same string otherwise.
SameAnswer ==
    IF val_out.branch = "average"
    THEN WithinHundredth(val_in.claimed, val_out.correct_answer)
    ELSE val_out.branch \in {"sum", "list"} /\ val_in.claimed = val_out.correct_answer

\* The claimed answer written out is the recomputed one: the text "2" and
\* the JSON number 2 both agree with a recomputed 2.
AgreesInValue ==
    IF val_out.branch = "average"
    THEN WithinHundredth(val_in.claimed, val_out.correct_answer)
    ELSE /\ val_out.branch \in {"sum", "list"}
         /\ val_in.claimed.t \in {"str", "int"}
         /\ Str(val_in.claimed) = val_out.correct_answer.s

\* No field other than expected_answer differs from the submitted problem.
OnlyAnswerTouched ==
    /\ val_out.raised = NoExc
    /\ DOMAIN val_out.problem_data = DOMAIN Submitted
    /\ \A field \in DOMAIN Submitted \ {"expected_answer"} :
            val_out.problem_data[field] = Submitted[field]

Reverse(s) == [i \in 1 .. Len(s) |-> s[Len(s) + 1 - i]]

CountOf(c, s) == Cardinality({i \in DOMAIN s : s[i] = c})

RECURSIVE Factorial(_)
Factorial(n) == IF n = 0 THEN 1 ELSE n * Factorial(n - 1)

\* The number at a position of 0, 1, 1, 2, 3, 5, 8, 13..., counting from 1.
RECURSIVE Fibonacci(_)
Fibonacci(position) ==
    IF position <= 2 THEN position - 1
    ELSE Fibonacci(position - 1) + Fibonacci(position - 2)

Vowels == {"a", "e", "i", "o", "u"}

PalindromeWords ==
    <<<<"r", "a", "c", "e", "c", "a", "r">>,
      <<"h", "e", "l", "l", "o">>,
      <<"l", "e", "v", "e", "l">>,
      <<"w", "o", "r", "l", "d">>,
      <<"r", "a", "d", "a", "r">>>>

PalindromePhrase ==
    <<"W", "a", "s", " ", "i", "t", " ", "a", " ", "c", "a", "r", " ", "o", "r", " ", "a", " ", "c", "a", "t", " ", "I", " ", "s", "a", "w">>

Education == <<"e", "d", "u", "c", "a", "t", "i", "o", "n">>

Mississippi == <<"m", "i", "s", "s", "i", "s", "s", "i", "p", "p", "i">>

\* The values a correct solution of the catalog's problem returns.
CorrectAnswers(problem) ==
    CASE problem = 1 -> {PyInt(SumOfSet(Filtered(T.even, 1, 20)))}
      [] problem = 2 -> {PyStr(Reverse(<<"P", "y", "t", "h", "o", "n">>))}
      [] problem = 3 -> {PyInt(SecondLargest({15, 8, 23, 42, 4, 16}))}
      [] problem = 4 ->
            {PyInt(Cardinality({i \in DOMAIN PalindromeWords :
                                   PalindromeWords[i] = Reverse(PalindromeWords[i])}))}
      [] problem = 5 -> {PyInt(Factorial(6))}
      [] problem = 6 -> {PyInt(n) : n \in (1 .. 8) \ {1, 2, 3, 5, 6, 7, 8}}
      [] problem = 7 -> {PyInt(Fibonacci(7))}
      [] problem = 8 -> {PyInt(SumOfSet(Filtered(T.prime, 1, 15)))}
      [] problem = 9 ->
            {PyBool(Remove(Lower(PalindromePhrase), " ")
                    = Reverse(Remove(Lower(PalindromePhrase), " ")))}
      [] problem = 10 ->
            {PyInt(n) : n \in {m \in 1 .. 7 : CountOf(m, <<1, 2, 3, 4, 5, 3, 6, 7>>) = 2}}
      [] problem = 11 ->
            {PyInt(Cardinality({i \in DOMAIN Education : Education[i] \in Vowels})
                   - Cardinality({i \in DOMAIN Education : Education[i] \notin Vowels}))}
      [] OTHER ->
            {PyStr(<<Mississippi[i]>>) : i \in
                {i \in DOMAIN Mississippi :
                    \A j \in DOMAIN Mississippi :
                        CountOf(Mississippi[j], Mississippi)
                            <= CountOf(Mississippi[i], Mississippi)}}

\* def solution(): return value
SolutionReturning(value) ==
    <<[k |-> "def0", name |-> "solution",
       body |-> [out |-> <<>>, err |-> <<>>, raised |-> NoExc, value |-> value]]>>

\* C17: every problem of the fallback catalog carries an expected_answer
\* that is the correct answer to the computation its description states, so
\* a correct submission for a catalog problem is judged passed.
C17_CatalogAnswersCorrect ==
    (Generated /\ gen_out.raised = NoExc /\ CatalogProblem(gen_out.problem)) =>
        \A value \in CorrectAnswers(gen_in.choice) :
            LET run == execute_code_no_input(SolutionReturning(value),
                                             gen_out.problem["expected_answer"].s,
                                             "python")
            IN  run.returned /\ run.result.passed

(***************************************************************************)
(* Properties of the stored problem (Spec).                                *)
(***************************************************************************)
\* C18: the expected answer run_code judges a submission for problem id P
\* against is exactly the expected_answer that the generate_problem call
\* which created P returned, validator overrides included; every stored row
\* loads to the answer that was returned for it.
C18_StoredAnswerIsReturnedAnswer ==
    /\ DOMAIN issued = DOMAIN code_problems
    /\ \A id \in DOMAIN code_problems :
          LoadsExpected(code_problems[id].test_cases) =
              [raised |-> NoExc, expected |-> issued[id].s]
    /\ (RunCodeAnswered /\ response.answered /\ response.status = 200) =>
          /\ response.sandbox.result.expected = issued[request.problem_id].s
          /\ response.body.expected = issued[request.problem_id].s

\* run_code judged a submission for the second problem, whose answer the
\* validator had overridden (the provider claimed 2), against 2.50, while
\* the first problem's answer ends in a line break.
C18_Witness ==
    /\ RunCodeAnswered
    /\ response.answered
    /\ response.status = 200
    /\ request.problem_id = 2
    /\ issued[1] = PyStr(<<"4", "2", "\n">>)
    /\ issued[2] = PyStr(<<"2", ".", "5", "0">>)
    /\ response.body.expected = <<"2", ".", "5", "0">>

(***************************************************************************)
(* Properties of submit_coding_session (SpecSubmit, Spec).                 *)
(***************************************************************************)
\* The positions of the user's submissions of the day in the table.
SubmissionsOfTheDay(table, user_id) ==
    {i \in DOMAIN table :
        /\ table[i].user_id = user_id
        /\ table[i].created_at = Today
        /\ "is_submission" \in DOMAIN table[i].result_summary
        /\ table[i].result_summary["is_submission"]}

\* The ten most recent of them, or all when there are fewer.
TenMostRecent(table, user_id) ==
    LET positions == SubmissionsOfTheDay(table, user_id)
    IN  {i \in positions : Cardinality({j \in positions : j > i}) < 10}

RECURSIVE TotalScore(_, _)
TotalScore(table, positions) ==
    IF positions = {} THEN 0
    ELSE LET i == CHOOSE i \in positions : TRUE
         IN  table[i].result_summary["score"] + TotalScore(table, positions \ {i})

\* The step is a call of submit_coding_session.
SubmitSessionStep ==
    /\ request' # NoCall
    /\ request'.handler = "submit_coding_session"
    /\ <<code_problems', issued'>> = <<code_problems, issued>>

\* C19: when submit_coding_session finds at least one submission of the
\* current day for the user, it appends exactly one summary record whose
\* session_score is the mean of the scores of the (at most 10 most recent)
\* submissions rounded to one decimal and whose problems_solved is their
\* count, and the session_score lies in [0, 10].
C19_OneSummaryWithRoundedMean ==
    [][(SubmitSessionStep
        /\ SubmissionsOfTheDay(code_submissions, request'.user_id) # {}) =>
          LET recent == TenMostRecent(code_submissions, request'.user_id)
              count == Cardinality(recent)
              total == TotalScore(code_submissions, recent)
              summary == code_submissions'[Len(code_submissions')]
              tenths == summary.result_summary.session_score.tenths
          IN  /\ Len(code_submissions') = Len(code_submissions) + 1
              /\ SubSeq(code_submissions', 1, Len(code_submissions)) = code_submissions
              /\ summary.user_id = request'.user_id
              /\ summary.problem = "SESSION_SUMMARY"
              /\ summary.result_summary.problems_solved = count
              /\ 2 * Abs(tenths * count - 10 * total) <= count
              /\ tenths \in 0 .. 100
              /\ response'.body.score = summary.result_summary.session_score
              /\ response'.body.problems_solved = count]_vars

\* A summary over the ten most recent of eleven submissions: the oldest,
\* scored 10, is left out, and four of the ten fetched scored 10.
C19_Witness ==
    /\ request # NoCall
    /\ request.handler = "submit_coding_session"
    /\ Cardinality(SubmissionsOfTheDay(code_submissions, request.user_id)) = 11
    /\ TotalScore(code_submissions, SubmissionsOfTheDay(code_submissions, request.user_id)) = 50
    /\ code_submissions[Len(code_submissions)].problem = "SESSION_SUMMARY"
    /\ response.body.message = "Session saved successfully"
    /\ response.body.problems_solved = 10
    /\ response.body.score = Float1(40)

\* C20: the results of a user's run_code calls are folded into the session
\* score: after n >= 1 run_code calls of a day, submit_coding_session
\* reports the mean of the n scores and problems_solved n.  Stated on a
\* call of submit_coding_session that follows an answered run_code call
\* (the handler run_code never reads current_user, so its request carries
\* no user; the caller of both is taken to be the same): at least that one
\* problem is counted, and a run that scored 10 leaves the mean above 0.
C20_RunsFoldedIntoSessionScore ==
    [][(/\ RunCodeAnswered
        /\ response.answered
        /\ response.status = 200
        /\ SubmitSessionStep) =>
          /\ response'.body.message = "Session saved successfully"
          /\ "problems_solved" \in DOMAIN response'.body
          /\ response'.body.problems_solved >= 1
          /\ response.body.score = 10 => response'.body.score # Float1(0)]_vars

(***************************************************************************)
(* Properties of compare_answers over whole answers (SpecPhrases).         *)
(***************************************************************************)
\* The text without its white space of any kind, in lower case.
Squeezed(s) == Lower(SelectSeq(s, LAMBDA c : c \notin Whitespace))

\* C21: compare_answers returns true whenever actual and expected are equal
\* after trimming, removing every internal white space character of any
\* kind (spaces, tabs, newlines, carriage returns) and ignoring letter case.
C21_EqualUpToWhitespaceAndCase ==
    (Called /\ Squeezed(cmp_in.actual) = Squeezed(cmp_in.expected)) =>
        cmp_out.result = TRUE

\* C22: for every pair of values taken, in any letter case, both from
\* {true, 1, yes} or both from {false, 0, no}, compare_answers returns true
\* in either argument order.
C22_BooleanSynonymsMatch ==
    (/\ Called
     /\ \/ {Lower(cmp_in.actual), Lower(cmp_in.expected)} \subseteq true_vals
        \/ {Lower(cmp_in.actual), Lower(cmp_in.expected)} \subseteq false_vals) =>
        cmp_out.result = TRUE

\* "1" against "true" matched as boolean words although only "1" is a number.
C22_Witness ==
    /\ Called
    /\ cmp_in.actual = <<"1">>
    /\ cmp_in.expected = <<"t", "r", "u", "e">>
    /\ cmp_out.result = TRUE
    /\ cmp_out.by = "boolean"

\* Neither the exact, nor the numeric, nor the boolean-synonym strategy
\* decides on the two normalized texts.
Undecided(a, e) ==
    /\ Lower(a) # Lower(e)
    /\ ~(ParseFloat(a).ok /\ ParseFloat(e).ok)
    /\ ~({Lower(a), Lower(e)} \subseteq true_vals)
    /\ ~({Lower(a), Lower(e)} \subseteq false_vals)

\* e occurs in a as a run of consecutive characters.
Substring(e, a) ==
    \E from \in 1 .. (Len(a) + 1), to \in 0 .. Len(a) : SubSeq(a, from, to) = e

\* C23: when the exact, numeric and boolean-synonym strategies do not
\* decide, compare_answers returns true if and only if the normalized
\* expected text is a substring of the normalized actual text ("The answer
\* is 12" against "12" is true, "cat" against "dog" is false); an actual
\* that is merely a substring of expected does not match.  Normalized is
\* what lines 509-510 make of a text.
C23_ContainmentDecidesLast ==
    Called =>
        /\ Undecided(Clean(cmp_in.actual), Clean(cmp_in.expected)) =>
              cmp_out.result = Substring(Clean(cmp_in.expected), Clean(cmp_in.actual))
        /\ (/\ cmp_in.actual = <<"T", "h", "e", " ", "a", "n", "s", "w", "e", "r", " ", "i", "s", " ", "1", "2">>
            /\ cmp_in.expected = <<"1", "2">>) => cmp_out.result = TRUE
        /\ (cmp_in.actual = <<"c", "a", "t">> /\ cmp_in.expected = <<"d", "o", "g">>)
              => cmp_out.result = FALSE
        /\ (cmp_in.actual = <<"c", "a">> /\ cmp_in.expected = <<"c", "a", "t">>)
              => cmp_out.result = FALSE

\* "ca" was compared with the expected "cat", which contains it, and did
\* not match.
C23_Witness ==
    /\ Called
    /\ cmp_in.actual = <<"c", "a">>
    /\ cmp_in.expected = <<"c", "a", "t">>
    /\ cmp_out.result = FALSE
    /\ cmp_out.by = "none"
    /\ "contains" \in cmp_out.consulted

(***************************************************************************)
(* Further properties of execute_code_no_input (SpecSandbox).              *)
(***************************************************************************)
\* The language is python and the entry-point pattern matches the source.
EntryPointNamed == exec_in.language = "python" /\ FuncMatch(exec_in.code) # 0

\* C24: the sandbox invokes the entry point exactly once on every run in
\* which the definition of the submitted source succeeded and the
\* entry-point name is bound afterwards, and zero times on every other run;
\* a definition fault returns success=false with the compilation error and
\* empty output, and an entry-point name missing after definition returns a
\* distinct "function not found" error.
C24_EntryPointInvokedOnce ==
    Executed =>
        LET defined == ExecSource(exec_in.code)
            func_name == exec_in.code[FuncMatch(exec_in.code)].name
        IN  /\ (/\ EntryPointNamed
                /\ defined.raised = NoExc
                /\ func_name \in DOMAIN defined.globals) => exec_out.invocations = 1
            /\ ~(/\ EntryPointNamed
                 /\ defined.raised = NoExc
                 /\ func_name \in DOMAIN defined.globals) => exec_out.invocations = 0
            /\ (EntryPointNamed /\ defined.raised # NoExc) =>
                  /\ exec_out.returned
                  /\ exec_out.result.success = FALSE
                  /\ exec_out.result.error
                        = PyStr(<<"Code compilation error: ">> \o defined.raised.msg)
                  /\ exec_out.result.output = <<>>
            /\ (/\ EntryPointNamed
                /\ defined.raised = NoExc
                /\ func_name \notin DOMAIN defined.globals) =>
                  /\ exec_out.returned
                  /\ exec_out.result.success = FALSE
                  /\ exec_out.result.error
                        = PyStr(<<"Function '", func_name, "' not found in code">>)

\* What the run did before its result was built.
DefinitionRaised == EntryPointNamed /\ ExecSource(exec_in.code).raised # NoExc

RaisedAtRunTime == exec_out.call # NoCall /\ exec_out.call.raised # NoExc

EmittedDiagnostics == exec_out.call # NoCall /\ Strip(exec_out.call.err) # <<>>

LackedEntryPoint ==
    /\ exec_in.language = "python"
    /\ \/ FuncMatch(exec_in.code) = 0
       \/ exec_in.code[FuncMatch(exec_in.code)].name
              \notin DOMAIN ExecSource(exec_in.code).globals

AccountOf(stored_data) ==
    [username |-> stored_data.user_data.username,
     email |-> stored_data.user_data.email, verified |-> TRUE]

\* This step handled a verify_otp request for a pending registration that
\* had not expired.
VerifyOtpInTime ==
    /\ request' # NoCall
    /\ request'.op = "verify_otp"
    /\ request'.email \in DOMAIN otp_storage
    /\ ~(now > otp_storage[request'.email].expires)

AccountsOf(table, email) == {i \in DOMAIN table : table[i].email = email}

\* C28: once the OTP of a pending registration has expired, no account can
\* be created for that email until register is called again: neither
\* verify_otp nor resend_otp followed by verify_otp can complete an expired
\* registration.
C28_ExpiredRegistrationStaysDead ==
    [][\A email \in lapsed : AccountsOf(users', email) = AccountsOf(users, email)]_vars

(***************************************************************************)
(* Properties of the interview handlers (SpecInterview): what each handler *)
(* would do with every request it can get in the state reached.            *)
(***************************************************************************)
\* The session ids of any user at any second so far, and one of no session.
AnySessionIds ==
    {SessionId(user_id, clock) : user_id \in Users, clock \in 0 .. now}
    \cup {<<"session_9_9">>}

\* The request does not come from the user who started the session named.
Stranger(user_id, session_id) ==
    \/ session_id \notin DOMAIN interview_sessions
    \/ interview_sessions[session_id].user_id # user_id

\* Every session but the one named is as it was.
OthersKept(sessions, session_id) ==
    \A other \in DOMAIN interview_sessions \ {session_id} :
        other \in DOMAIN sessions /\ sessions[other] = interview_sessions[other]

Rejected(served) ==
    /\ served.response.status \in {403, 404}
    /\ served.interview_sessions = interview_sessions
    /\ served.interview_rows = interview_rows

C30_StartNeverReplaces ==
    \A user_id \in Users, cv_skills \in SkillLists, cv_data \in CvRows :
        \E started \in {start_interview(
                          interview_sessions, interview_rows, now, user_id,
                          [topic |-> <<"Software Development">>, cv_skills |-> cv_skills],
                          cv_data, TRUE)} :
            /\ \A session_id \in DOMAIN interview_sessions :
                  /\ session_id \in DOMAIN started.interview_sessions
                  /\ started.interview_sessions[session_id]
                        = interview_sessions[session_id]
            /\ started.response.status = 200 =>
                  started.response.detail \notin DOMAIN interview_sessions

====
